---------------------------- MODULE Spec2Model ----------------------------
(***************************************************************************)
(* Difficulty-aware scoring engine of the confidence assessment app, with  *)
(* the results page's analytics call, the question generation loop and the *)
(* difficulty selection page.                                              *)
(*                                                                         *)
(* The scoring functions are modelled as operators that follow the source  *)
(* statement by statement; each specification below draws the inputs of    *)
(* one group of functions from bounded sets and applies the functions.     *)
(*                                                                         *)
(* Numbers: a JavaScript number is modelled as an exact fraction           *)
(* [num, den] in lowest terms with den > 0, plus the three values a        *)
(* division by zero produces: NaN (0/0), Infinity (1/0), -Infinity (-1/0). *)
(* Math.sqrt is modelled exactly by values of the form a + c*sqrt(v).      *)
(* Response times with a fractional part are binary64 values, added and    *)
(* divided with rounding to nearest, ties to even.                         *)
(***************************************************************************)
EXTENDS Integers, Sequences, FiniteSets, TLC

VARIABLES
    pc,                      \* "input": collecting the arguments; "done": the call returned
    responses,               \* QuestionResponse[] handed to the scoring call
    questions,               \* Question[] handed to the scoring call
    difficultyScores,        \* Record<string, DifficultyScore>
    conceptMastery,          \* ConceptMastery[]
    overallConfidenceScore,  \* result of computeOverallConfidenceScore
    understandingLevel,      \* result of determineUnderstandingLevel
    interpretation,          \* result of generateInterpretation
    recommendations,         \* result of generateRecommendations
    sessions,                \* per session: the responses and questions of its scoring calls
    analytics,               \* the DifficultyAwareAnalytics last returned (per session)
    request,                 \* the generation request: difficulty and count
    batch,                   \* the questions placed in the batch so far
    attempts,                \* generator calls made for the current slot
    draft,                   \* the draft under validation
    violations,              \* the violations left after validation and repair
    generatorCalls,          \* generator calls made for the request
    selectedDifficulty,      \* useState<DifficultyLevel | null> of the selection page
    sessionStorage,          \* window.sessionStorage
    route,                   \* the URL the router shows
    alertShown,              \* the text of the last alert(), if any
    uploadPage,              \* useState of UploadPage: file, isUploading, summary, error
    startPage,               \* useState of StartAssessmentPage
    ingest                   \* the ingest requests in flight

scoringVars == <<responses, questions, difficultyScores, conceptMastery,
                 overallConfidenceScore, understandingLevel, interpretation,
                 recommendations>>

analyticsVars == <<sessions, analytics>>

generationVars == <<request, batch, attempts, draft, violations, generatorCalls>>

\* The state of the pages other than the difficulty selection page.
otherPages == <<uploadPage, startPage, ingest>>

pageVars == <<selectedDifficulty, sessionStorage, route, alertShown, otherPages>>

\* What the scoring functions called one by one never touch.
outsideScoring == <<analyticsVars, generationVars, pageVars>>

vars == <<pc, scoringVars, analyticsVars, generationVars, pageVars>>

\* A result that has not been computed yet, a part of the state that is not in
\* use.
None == "none"

OtherPagesUnused == uploadPage = None /\ startPage = None /\ ingest = None

OutsideScoringUnused ==
    /\ sessions = None /\ analytics = None
    /\ request = None /\ batch = None /\ attempts = None
    /\ draft = None /\ violations = None /\ generatorCalls = None
    /\ selectedDifficulty = None /\ sessionStorage = None
    /\ route = None /\ alertShown = None
    /\ OtherPagesUnused

(***************************************************************************)
(* Bounds of the model.                                                    *)
(***************************************************************************)
\* Longest response / question list of a computeDifficultyScores call.
MaxLen == 3

\* Most questions answered before a computeConceptMastery call.
MaxAnswered == 4

\* Longest response list of a computeOverallConfidenceScore call.
MaxResponses == 10

\* Longest concept-mastery list handed to generateRecommendations.
MaxConcepts == 2

(***************************************************************************)
(* JavaScript numbers.                                                     *)
(***************************************************************************)
Abs(n) == IF n < 0 THEN -n ELSE n

Sign(n) == IF n < 0 THEN -1 ELSE IF n > 0 THEN 1 ELSE 0

RECURSIVE GCD(_, _)
GCD(a, b) == IF b = 0 THEN a ELSE GCD(b, a % b)

\* n/d as a number: lowest terms, positive denominator; x/0 is NaN or +-Infinity.
Rat(n, d) ==
    IF d = 0 THEN [num |-> Sign(n), den |-> 0]
    ELSE LET g == GCD(Abs(n), Abs(d))
             s == Sign(d)
         IN  [num |-> (s * n) \div g, den |-> (s * d) \div g]

Num(n) == [num |-> n, den |-> 1]

NaN == [num |-> 0, den |-> 0]

IsNaN(x) == x.den = 0 /\ x.num = 0

IsFinite(x) == x.den > 0

(***************************************************************************)
(* Numbers that are not whole.  A duration such as 26.4 s is no fraction   *)
(* with a small denominator but a binary64 value, and sums of such values  *)
(* are rounded.  The values of the window [8, 128) and 0 are kept exactly, *)
(* as (hi * Limb + lo) * 2^-49 with Limb = 2^28; sums and quotients by     *)
(* whole numbers that stay in the window are rounded as IEEE 754 does, to  *)
(* nearest, ties to even.                                                  *)
(***************************************************************************)
Limb == 268435456

Binary64Zero == [hi |-> 0, lo |-> 0]

IsBinary64(x) == "hi" \in DOMAIN x

\* The binade of a number of the window [8, 128): its unit in the last place
\* is 2^k * 2^-49 with k = 0 for [8, 16), 1 for [16, 32), 2 for [32, 64) and 3
\* for [64, 128).
UlpOf(hi) ==
    IF hi < 33554432 THEN 1 ELSE IF hi < 67108864 THEN 2 ELSE IF hi < 134217728 THEN 4 ELSE 8

InWindow(hi) == 16777216 <= hi /\ hi < Limb

\* hi * Limb + lo + num/den (0 <= num < den) rounded to the nearest multiple of
\* its unit in the last place, ties to the even significand.
RoundToBinary64(hi, lo, num, den) ==
    LET u == CHOOSE v \in {UlpOf(hi)} : InWindow(hi)
        low == lo % u
        base == lo - low
        twice == 2 * (low * den + num)
        up == \/ twice > u * den
              \/ twice = u * den /\ (base \div u) % 2 = 1
        lo1 == IF up THEN base + u ELSE base
    IN  IF lo1 = Limb THEN [hi |-> hi + 1, lo |-> 0] ELSE [hi |-> hi, lo |-> lo1]

\* x + y in binary64
Binary64Add(x, y) ==
    IF x = Binary64Zero THEN y
    ELSE IF y = Binary64Zero THEN x
    ELSE LET lo == x.lo + y.lo
         IN  RoundToBinary64(x.hi + y.hi + (lo \div Limb), lo % Limb, 0, 1)

\* x / n in binary64, for an integer n >= 1
Binary64Div(x, n) ==
    IF x = Binary64Zero THEN x
    ELSE LET t == (x.hi % n) * Limb + x.lo
         IN  RoundToBinary64(x.hi \div n, t \div n, t % n, n)

\* A whole number of the window, or 0, in binary64.
ToBinary64(x) == IF IsBinary64(x) THEN x ELSE [hi |-> x.num * 2097152, lo |-> 0]

\* x + y
Add(x, y) ==
    IF IsBinary64(x) \/ IsBinary64(y) THEN Binary64Add(ToBinary64(x), ToBinary64(y))
    ELSE IF x.den = 0 /\ y.den = 0 THEN (IF x = y THEN x ELSE NaN)
    ELSE IF x.den = 0 THEN x
    ELSE IF y.den = 0 THEN y
    ELSE LET g == GCD(x.den, y.den)
         IN  Rat(x.num * (y.den \div g) + y.num * (x.den \div g),
                 (x.den \div g) * y.den)

Neg(x) == [num |-> -x.num, den |-> x.den]

\* x - y
Sub(x, y) == Add(x, Neg(y))

\* x * y
Mul(x, y) ==
    IF x.den = 0 \/ y.den = 0 THEN Rat(x.num * y.num, 0)
    ELSE LET g1 == GCD(Abs(x.num), y.den)
             g2 == GCD(Abs(y.num), x.den)
         IN  Rat((x.num \div g1) * (y.num \div g2),
                 (x.den \div g2) * (y.den \div g1))

\* x / y (a binary64 value is divided by whole numbers only)
Div(x, y) ==
    IF IsBinary64(x) THEN Binary64Div(x, y.num)
    ELSE IF y.den = 0 THEN (IF x.den = 0 THEN NaN ELSE Num(0))
    ELSE IF y.num = 0 THEN Rat(x.num, 0)
    ELSE Mul(x, [num |-> Sign(y.num) * y.den, den |-> Abs(y.num)])

\* x < y (false as soon as one side is NaN)
Lt(x, y) ==
    IF IsNaN(x) \/ IsNaN(y) THEN FALSE
    ELSE IF x.den = 0 /\ y.den = 0 THEN x.num < y.num
    ELSE IF x.den = 0 THEN x.num < 0
    ELSE IF y.den = 0 THEN y.num > 0
    ELSE LET g == GCD(x.den, y.den)
         IN  x.num * (y.den \div g) < y.num * (x.den \div g)

\* x >= y
Ge(x, y) == ~IsNaN(x) /\ ~IsNaN(y) /\ ~Lt(x, y)

\* x > y
Gt(x, y) == Lt(y, x)


\* Math.max(x, y), Math.min(x, y) and Math.abs(x): NaN as soon as an argument is NaN
MathMax(x, y) == IF IsNaN(x) \/ IsNaN(y) THEN NaN ELSE IF Lt(x, y) THEN y ELSE x

MathMin(x, y) == IF IsNaN(x) \/ IsNaN(y) THEN NaN ELSE IF Lt(y, x) THEN y ELSE x

MathAbs(x) == [num |-> Abs(x.num), den |-> x.den]

\* Math.round(x): the integer nearest to x, halves rounded up; NaN and the
\* infinities are returned as they are.
MathRound(x) ==
    IF x.den = 0 THEN x ELSE Num((2 * x.num + x.den) \div (2 * x.den))

(***************************************************************************)
(* The data of a scoring call.                                             *)
(***************************************************************************)
Tiers == {"easy", "moderate", "hard"}

\* What questions[idx] yields past the end of the list.
Undefined == [undefined |-> TRUE]

\* String.prototype.toLowerCase on the spellings of a tier.
toLowerCase(s) ==
    CASE s \in {"easy", "Easy", "EASY"} -> "easy"
      [] s \in {"moderate", "Moderate", "MODERATE"} -> "moderate"
      [] s \in {"hard", "Hard", "HARD"} -> "hard"
      [] OTHER -> s

\* The tier spellings the questions of the model carry: the three tiers and
\* one capitalised spelling, which toLowerCase folds into its tier.
DifficultySpellings == Tiers \cup {"Hard"}

Topics == {"arrays", "graphs"}

\* The concepts of a concept-mastery list, in the order of the list.
ConceptOrder == <<"arrays", "graphs", "trees", "heaps">>

\* The responses and questions handed to computeDifficultyScores, which reads
\* every field of a response and the difficulty of a question.
DifficultyResponses ==
    [is_correct : BOOLEAN, user_confidence : {90}, total_time : {Num(10)}]
        \cup [is_correct : BOOLEAN, user_confidence : {40}, total_time : {Num(15)}]

DifficultyQuestions == [difficulty : DifficultySpellings, topic : {"arrays"}]

(***************************************************************************)
(* computeDifficultyScores                                                 *)
(***************************************************************************)
emptyScore(tier) ==
    [difficulty |-> tier, total_questions |-> 0, correct |-> 0,
     accuracy |-> Num(0), avg_confidence |-> Num(0), avg_time |-> Num(0)]

initialScores ==
    [easy |-> emptyScore("easy"), moderate |-> emptyScore("moderate"),
     hard |-> emptyScore("hard")]

\* questions[idx] for the zero-based idx of the forEach callbacks
questionAt(qs, idx) == IF idx + 1 \in DOMAIN qs THEN qs[idx + 1] ELSE Undefined

\* groupByDifficulty with the test of is_correct lost: every response counts
\* as correct.
groupByDifficulty_CountsEveryResponse(scores, response, question) ==
    IF question = Undefined THEN scores
    ELSE LET difficulty == toLowerCase(question.difficulty)
             score == scores[difficulty]
         IN  [scores EXCEPT ![difficulty] =
                 [score EXCEPT
                     !.total_questions = @ + 1,
                     !.correct = @ + 1,
                     !.avg_confidence = Add(@, Num(response.user_confidence)),
                     !.avg_time = Add(@, response.total_time)]]

\* groupByDifficulty with the time assigned instead of added: a tier keeps the
\* time of its last response.
groupByDifficulty_KeepsLastTime(scores, response, question) ==
    IF question = Undefined THEN scores
    ELSE LET difficulty == toLowerCase(question.difficulty)
             score == scores[difficulty]
         IN  [scores EXCEPT ![difficulty] =
                 [score EXCEPT
                     !.total_questions = @ + 1,
                     !.correct = IF response.is_correct THEN @ + 1 ELSE @,
                     !.avg_confidence = Add(@, Num(response.user_confidence)),
                     !.avg_time = response.total_time]]

\* The callback of responses.forEach: one response added to its tier's sums.
groupByDifficulty(scores, response, question) ==
    IF question = Undefined THEN scores
    ELSE LET difficulty == toLowerCase(question.difficulty)
             score == scores[difficulty]
         IN  [scores EXCEPT ![difficulty] =
                 [score EXCEPT
                     !.total_questions = @ + 1,
                     !.correct = IF response.is_correct THEN @ + 1 ELSE @,
                     !.avg_confidence = Add(@, Num(response.user_confidence)),
                     !.avg_time = Add(@, response.total_time)]]

\* responses.forEach((response, idx) => ...) from index idx on
RECURSIVE forEachResponse(_, _, _, _)
forEachResponse(scores, rs, qs, idx) ==
    IF idx >= Len(rs) THEN scores
    ELSE forEachResponse(groupByDifficulty(scores, rs[idx + 1], questionAt(qs, idx)),
                         rs, qs, idx + 1)

\* averageScore with the guard total_questions > 0 lost.
averageScore_Unguarded(score) ==
    [score EXCEPT
        !.accuracy = Mul(Div(Num(score.correct), Num(score.total_questions)), Num(100)),
        !.avg_confidence = Div(@, Num(score.total_questions)),
        !.avg_time = Div(@, Num(score.total_questions))]

\* The callback of Object.values(scores).forEach: sums turned into averages.
averageScore(score) ==
    IF score.total_questions > 0
    THEN [score EXCEPT
             !.accuracy = Mul(Div(Num(score.correct), Num(score.total_questions)), Num(100)),
             !.avg_confidence = Div(@, Num(score.total_questions)),
             !.avg_time = Div(@, Num(score.total_questions))]
    ELSE score

computeDifficultyScores(rs, qs) ==
    LET scores == forEachResponse(initialScores, rs, qs, 0)
    IN  [tier \in Tiers |-> averageScore(scores[tier])]

(***************************************************************************)
(* The specification of computeDifficultyScores: a caller collects         *)
(* questions and responses, in any numbers, and makes the scoring call.    *)
(***************************************************************************)
NoResults ==
    /\ difficultyScores = None
    /\ conceptMastery = None
    /\ overallConfidenceScore = None
    /\ understandingLevel = None
    /\ interpretation = None
    /\ recommendations = None

InitDifficulty ==
    /\ pc = "input"
    /\ OutsideScoringUnused
    /\ responses = <<>>
    /\ questions = <<>>
    /\ NoResults

AddDifficultyQuestion ==
    /\ pc = "input"
    /\ Len(questions) < MaxLen
    /\ \E q \in DifficultyQuestions : questions' = Append(questions, q)
    /\ UNCHANGED <<pc, responses, difficultyScores, conceptMastery,
                   overallConfidenceScore, understandingLevel, interpretation,
                   recommendations>>
    /\ UNCHANGED outsideScoring

AddDifficultyResponse ==
    /\ pc = "input"
    /\ Len(responses) < MaxLen
    /\ \E r \in DifficultyResponses : responses' = Append(responses, r)
    /\ UNCHANGED <<pc, questions, difficultyScores, conceptMastery,
                   overallConfidenceScore, understandingLevel, interpretation,
                   recommendations>>
    /\ UNCHANGED outsideScoring

CallComputeDifficultyScores ==
    /\ pc = "input"
    /\ difficultyScores' = computeDifficultyScores(responses, questions)
    /\ pc' = "done"
    /\ UNCHANGED <<responses, questions, conceptMastery, overallConfidenceScore,
                   understandingLevel, interpretation, recommendations>>
    /\ UNCHANGED outsideScoring

NextDifficulty ==
    \/ AddDifficultyQuestion
    \/ AddDifficultyResponse
    \/ CallComputeDifficultyScores

SpecDifficulty == InitDifficulty /\ [][NextDifficulty]_vars

(***************************************************************************)
(* Claims about computeDifficultyScores (under SpecDifficulty).            *)
(***************************************************************************)
\* The positions of the response list whose question exists and has this tier.
TierPositions(tier) ==
    {i \in DOMAIN responses \cap DOMAIN questions :
        toLowerCase(questions[i].difficulty) = tier}

\* The responses with their times, all whole numbers of seconds, as integers.
WholeSeconds(rs) == [i \in DOMAIN rs |-> [rs[i] EXCEPT !.total_time = @.num]]

RECURSIVE SumOver(_, _, _)
SumOver(S, rs, field) ==
    IF S = {} THEN 0
    ELSE LET i == CHOOSE j \in S : TRUE
         IN  rs[i][field] + SumOver(S \ {i}, rs, field)

\* A response without a matching question: the lists differ in length or the
\* position of some response holds no question.
Mismatched ==
    \/ Len(responses) # Len(questions)
    \/ \E i \in DOMAIN responses : questionAt(questions, i - 1) = Undefined

\* C1: a scoring call whose response and question lists differ in length, or in
\* which a response has no matching question, fails outright: it never returns
\* scores.
C1_MismatchedCallReturnsNoScores == ~(pc = "done" /\ Mismatched)

\* C2: every tier that receives zero questions is reported with
\* total_questions = 0, correct = 0, accuracy exactly 0, avg_confidence 0 and
\* avg_time 0, and no reported field is NaN or infinite (a division by zero).
C2_EmptyTierIsZero ==
    pc = "done" =>
        \A tier \in Tiers :
            /\ IsFinite(difficultyScores[tier].accuracy)
            /\ IsFinite(difficultyScores[tier].avg_confidence)
            /\ IsFinite(difficultyScores[tier].avg_time)
            /\ TierPositions(tier) = {} =>
                   difficultyScores[tier] =
                       [difficulty |-> tier, total_questions |-> 0, correct |-> 0,
                        accuracy |-> Num(0), avg_confidence |-> Num(0),
                        avg_time |-> Num(0)]

\* C2 witness: a call with responses has returned, one tier received questions
\* and another received none.
C2_Witness ==
    /\ pc = "done"
    /\ Len(responses) > 0
    /\ \E t1, t2 \in Tiers : TierPositions(t1) # {} /\ TierPositions(t2) = {}

\* C3: for aligned lists of equal length each tier reports the number of its
\* positions, the number of its correct positions, accuracy =
\* correct/total_questions*100 and the means of user_confidence and total_time
\* over its positions; easy [correct, incorrect] with moderate [correct] gives
\* accuracies 50, 100 and 0.
C3_TierScores ==
    (pc = "done" /\ Len(responses) = Len(questions)) =>
        /\ \A tier \in Tiers :
              LET P == TierPositions(tier)
                  n == Cardinality(P)
                  c == Cardinality({i \in P : responses[i].is_correct})
                  s == difficultyScores[tier]
              IN  /\ s.difficulty = tier
                  /\ s.total_questions = n
                  /\ s.correct = c
                  /\ n > 0 =>
                        /\ s.accuracy = Rat(100 * c, n)
                        /\ s.avg_confidence = Rat(SumOver(P, responses, "user_confidence"), n)
                        /\ s.avg_time = Rat(SumOver(P, WholeSeconds(responses), "total_time"), n)
        /\ ( /\ Len(responses) = 3
             /\ \A i \in 1..3 : responses[i].is_correct = (i # 2)
             /\ \A i \in 1..3 :
                    toLowerCase(questions[i].difficulty) = (IF i = 3 THEN "moderate" ELSE "easy") )
           => /\ difficultyScores["easy"].accuracy = Num(50)
              /\ difficultyScores["moderate"].accuracy = Num(100)
              /\ difficultyScores["hard"].accuracy = Num(0)

\* C3 witness: the scenario easy [correct, incorrect], moderate [correct] has
\* been scored.
C3_Witness ==
    /\ pc = "done"
    /\ Len(responses) = 3 /\ Len(questions) = 3
    /\ responses[1].is_correct /\ ~responses[2].is_correct /\ responses[3].is_correct
    /\ questions[1].difficulty = "easy" /\ questions[2].difficulty = "easy"
    /\ questions[3].difficulty = "moderate"
    /\ difficultyScores["easy"].avg_time = Rat(25, 2)

(***************************************************************************)
(* The specification of computeDifficultyScores for lists in any order: a  *)
(* learner answers questions of two tiers one by one (the lists stay       *)
(* aligned), with times that are whole numbers of seconds or not, then the *)
(* scoring call is made.                                                   *)
(***************************************************************************)
\* The length of the lists that are permuted.
MaxPermuted == 3

\* 26.4, 15.4 and 10.7 in binary64
Seconds26p4 == [hi |-> 55364812, lo |-> 214748364]

Seconds15p4 == [hi |-> 32296140, lo |-> 214748365]

Seconds10p7 == [hi |-> 22439526, lo |-> 107374182]

FractionalSeconds == {Seconds26p4, Seconds15p4, Seconds10p7}

OrderResponses ==
    DifficultyResponses
        \cup [is_correct : {TRUE}, user_confidence : {70}, total_time : FractionalSeconds]

OrderQuestions == [difficulty : {"easy", "hard"}, topic : {"arrays"}]

InitOrder ==
    /\ pc = "input"
    /\ OutsideScoringUnused
    /\ responses = <<>>
    /\ questions = <<>>
    /\ NoResults

AnswerOrderQuestion ==
    /\ pc = "input"
    /\ Len(responses) < MaxPermuted
    /\ \E q \in OrderQuestions, r \in OrderResponses :
          /\ questions' = Append(questions, q)
          /\ responses' = Append(responses, r)
    /\ UNCHANGED <<pc, difficultyScores, conceptMastery, overallConfidenceScore,
                   understandingLevel, interpretation, recommendations>>
    /\ UNCHANGED outsideScoring

NextOrder ==
    \/ AnswerOrderQuestion
    \/ CallComputeDifficultyScores

SpecOrder == InitOrder /\ [][NextOrder]_vars

(***************************************************************************)
(* Claims about the order of the lists (under SpecOrder).                  *)
(***************************************************************************)
\* A list reordered by a permutation of its positions.
permute(list, p) == [i \in DOMAIN list |-> list[p[i]]]

\* Every reordering of the aligned lists is scored as the lists were.
OrderIrrelevant ==
    \A p \in Permutations(DOMAIN responses) :
        computeDifficultyScores(permute(responses, p), permute(questions, p))
            = difficultyScores

WholeTimes == \A i \in DOMAIN responses : ~IsBinary64(responses[i].total_time)

\* C19 as stated: applying one permutation to the response list and the
\* question list leaves total_questions, correct, accuracy, avg_confidence and
\* avg_time of every tier unchanged.
C19_OrderIrrelevant == pc = "done" => OrderIrrelevant

\* C19, amended: when every user_confidence and total_time is a whole number,
\* applying one permutation to the response list and the question list leaves
\* total_questions, correct, accuracy, avg_confidence and avg_time of every
\* tier unchanged.
C19_OrderIrrelevantForWholeTimes == (pc = "done" /\ WholeTimes) => OrderIrrelevant

\* C19 witness: three answers on two tiers, with whole times that differ within
\* a tier, have been scored.
C19_Witness ==
    /\ pc = "done"
    /\ WholeTimes
    /\ Len(responses) = 3
    /\ questions[1].difficulty = "hard" /\ questions[2].difficulty = "easy"
    /\ questions[3].difficulty = "hard"
    /\ responses[1].total_time # responses[3].total_time
    /\ responses[1].is_correct /\ ~responses[2].is_correct
    /\ difficultyScores["hard"].avg_time = Rat(25, 2)

(***************************************************************************)
(* computeConceptMastery                                                   *)
(***************************************************************************)
\* The responses and questions handed to computeConceptMastery, which reads
\* is_correct of a response and the topic and difficulty of a question.
MasteryResponses ==
    [is_correct : BOOLEAN, user_confidence : {90}, total_time : {Num(10)}]

MasteryQuestions == [difficulty : Tiers, topic : Topics]

\* The value conceptMap.set gives a new concept.
emptyConceptData ==
    [easy |-> [correct |-> 0, total |-> 0],
     moderate |-> [correct |-> 0, total |-> 0],
     hard |-> [correct |-> 0, total |-> 0]]

\* A Map is the sequence of its [key, value] entries in insertion order, the
\* order Map.prototype.forEach visits them in.
\* mapHas that finds no key: every question starts a concept of its own.
mapHas_Never(map, key) == FALSE

mapHas(map, key) == \E i \in DOMAIN map : map[i].key = key

mapIndex(map, key) == CHOOSE i \in DOMAIN map : map[i].key = key

mapGet(map, key) == map[mapIndex(map, key)].value

mapSet(map, key, value) ==
    IF mapHas(map, key)
    THEN [map EXCEPT ![mapIndex(map, key)].value = value]
    ELSE Append(map, [key |-> key, value |-> value])

\* The callback of responses.forEach: one response counted under its
\* question's concept and tier.
groupByConcept(conceptMap, response, question) ==
    IF question = Undefined THEN conceptMap
    ELSE LET concept == question.topic
             difficulty == toLowerCase(question.difficulty)
             withConcept == IF ~mapHas(conceptMap, concept)
                            THEN mapSet(conceptMap, concept, emptyConceptData)
                            ELSE conceptMap
             conceptData == mapGet(withConcept, concept)
         IN  mapSet(withConcept, concept,
                 [conceptData EXCEPT
                     ![difficulty].total = @ + 1,
                     ![difficulty].correct = IF response.is_correct THEN @ + 1 ELSE @])

RECURSIVE forEachMasteryResponse(_, _, _, _)
forEachMasteryResponse(conceptMap, rs, qs, idx) ==
    IF idx >= Len(rs) THEN conceptMap
    ELSE forEachMasteryResponse(
             groupByConcept(conceptMap, rs[idx + 1], questionAt(qs, idx)),
             rs, qs, idx + 1)

\* data.total > 0 ? (data.correct / data.total) * 100 : 0
tierScore(data) ==
    IF data.total > 0 THEN Mul(Div(Num(data.correct), Num(data.total)), Num(100))
    ELSE Num(0)

\* weightedOverall with the weights divided by the weights of the tiers that
\* scored: untested tiers no longer count as zero.
weightedOverall_Renormalised(easyScore, moderateScore, hardScore) ==
    LET weight == Add(Add(IF easyScore = Num(0) THEN Num(0) ELSE Rat(3, 10),
                          IF moderateScore = Num(0) THEN Num(0) ELSE Rat(4, 10)),
                      IF hardScore = Num(0) THEN Num(0) ELSE Rat(3, 10))
        sum == Add(Add(Mul(easyScore, Rat(3, 10)), Mul(moderateScore, Rat(4, 10))),
                   Mul(hardScore, Rat(3, 10)))
    IN  IF weight = Num(0) THEN Num(0) ELSE Div(sum, weight)

\* easyScore * 0.3 + moderateScore * 0.4 + hardScore * 0.3
weightedOverall(easyScore, moderateScore, hardScore) ==
    Add(Add(Mul(easyScore, Rat(3, 10)), Mul(moderateScore, Rat(4, 10))),
        Mul(hardScore, Rat(3, 10)))

\* masteryStatus with the bounds taken strictly.
masteryStatus_StrictBounds(overallScore) ==
    IF Gt(overallScore, Num(80)) THEN "mastered"
    ELSE IF Gt(overallScore, Num(50)) THEN "partially-understood"
    ELSE "needs-revision"

\* The if / else if / else that sets status.
masteryStatus(overallScore) ==
    IF Ge(overallScore, Num(80)) THEN "mastered"
    ELSE IF Ge(overallScore, Num(50)) THEN "partially-understood"
    ELSE "needs-revision"

\* The callback of conceptMap.forEach: the ConceptMastery pushed for a concept.
masteryEntry(concept, data) ==
    LET easyScore == tierScore(data.easy)
        moderateScore == tierScore(data.moderate)
        hardScore == tierScore(data.hard)
        totalQuestions == data.easy.total + data.moderate.total + data.hard.total
        overallScore == weightedOverall(easyScore, moderateScore, hardScore)
    IN  [concept |-> concept,
         easy_score |-> easyScore,
         moderate_score |-> moderateScore,
         hard_score |-> hardScore,
         overall_score |-> overallScore,
         status |-> masteryStatus(overallScore),
         question_count |-> totalQuestions]

\* A sort that puts an entry in front of the entries of equal score.
insertByScore_BeforeEquals(sorted, entry) ==
    LET behind == {i \in DOMAIN sorted :
                      ~Gt(sorted[i].overall_score, entry.overall_score)}
        at == IF behind = {} THEN Len(sorted) + 1
              ELSE CHOOSE i \in behind : \A j \in behind : i <= j
    IN  SubSeq(sorted, 1, at - 1) \o <<entry>> \o SubSeq(sorted, at, Len(sorted))

\* Array.prototype.sort((a, b) => b.overall_score - a.overall_score): a stable
\* sort, so an entry goes behind every entry whose score is not lower.
insertByScore(sorted, entry) ==
    LET behind == {i \in DOMAIN sorted :
                      Lt(sorted[i].overall_score, entry.overall_score)}
        at == IF behind = {} THEN Len(sorted) + 1
              ELSE CHOOSE i \in behind : \A j \in behind : i <= j
    IN  SubSeq(sorted, 1, at - 1) \o <<entry>> \o SubSeq(sorted, at, Len(sorted))

RECURSIVE sortByScore(_, _)
sortByScore(list, n) ==
    IF n = 0 THEN <<>> ELSE insertByScore(sortByScore(list, n - 1), list[n])

computeConceptMastery(rs, qs) ==
    LET conceptMap == forEachMasteryResponse(<<>>, rs, qs, 0)
        masteryList == [i \in DOMAIN conceptMap |->
                           masteryEntry(conceptMap[i].key, conceptMap[i].value)]
    IN  sortByScore(masteryList, Len(masteryList))

(***************************************************************************)
(* The specification of computeConceptMastery: a learner answers questions *)
(* one by one (the lists stay aligned), then the scoring call is made.     *)
(***************************************************************************)
InitMastery ==
    /\ pc = "input"
    /\ OutsideScoringUnused
    /\ responses = <<>>
    /\ questions = <<>>
    /\ NoResults

AnswerMasteryQuestion ==
    /\ pc = "input"
    /\ Len(responses) < MaxAnswered
    /\ \E q \in MasteryQuestions, r \in MasteryResponses :
          /\ questions' = Append(questions, q)
          /\ responses' = Append(responses, r)
    /\ UNCHANGED <<pc, difficultyScores, conceptMastery, overallConfidenceScore,
                   understandingLevel, interpretation, recommendations>>
    /\ UNCHANGED outsideScoring

CallComputeConceptMastery ==
    /\ pc = "input"
    /\ conceptMastery' = computeConceptMastery(responses, questions)
    /\ pc' = "done"
    /\ UNCHANGED <<responses, questions, difficultyScores, overallConfidenceScore,
                   understandingLevel, interpretation, recommendations>>
    /\ UNCHANGED outsideScoring

NextMastery ==
    \/ AnswerMasteryQuestion
    \/ CallComputeConceptMastery

SpecMastery == InitMastery /\ [][NextMastery]_vars

(***************************************************************************)
(* Claims about computeConceptMastery (under SpecMastery).                 *)
(***************************************************************************)
\* The positions answered on a concept at a tier, and their counts.
ConceptPositions(concept, tier) ==
    {i \in DOMAIN responses \cap DOMAIN questions :
        questions[i].topic = concept /\ toLowerCase(questions[i].difficulty) = tier}

ConceptTotal(concept, tier) == Cardinality(ConceptPositions(concept, tier))

ConceptCorrect(concept, tier) ==
    Cardinality({i \in ConceptPositions(concept, tier) : responses[i].is_correct})

\* correct/total*100 of a concept at a tier, 0 when the tier is absent
ExpectedTierScore(concept, tier) ==
    IF ConceptTotal(concept, tier) = 0 THEN Num(0)
    ELSE Rat(100 * ConceptCorrect(concept, tier), ConceptTotal(concept, tier))

\* easy*0.3 + moderate*0.4 + hard*0.3 as one fraction over the product of the
\* tier totals (1 for an absent tier)
ExpectedOverall(concept) ==
    LET de == IF ConceptTotal(concept, "easy") = 0 THEN 1 ELSE ConceptTotal(concept, "easy")
        dm == IF ConceptTotal(concept, "moderate") = 0 THEN 1 ELSE ConceptTotal(concept, "moderate")
        dh == IF ConceptTotal(concept, "hard") = 0 THEN 1 ELSE ConceptTotal(concept, "hard")
    IN  Rat(30 * ConceptCorrect(concept, "easy") * dm * dh
              + 40 * ConceptCorrect(concept, "moderate") * de * dh
              + 30 * ConceptCorrect(concept, "hard") * de * dm,
            de * dm * dh)

\* The concept was tested at this tier only, and answered correctly throughout.
PerfectAtOnly(concept, tier) ==
    /\ ConceptTotal(concept, tier) > 0
    /\ ConceptCorrect(concept, tier) = ConceptTotal(concept, tier)
    /\ \A other \in Tiers \ {tier} : ConceptTotal(concept, other) = 0

\* C4: every topic of the result has overall_score = easy_score*0.3 +
\* moderate_score*0.4 + hard_score*0.3, each tier score being the topic's
\* correct/total*100 at the tier and 0 for a tier without questions; the weights
\* are not renormalised: a topic perfect at one tier only scores 30, 40 or 30.
C4_OverallIsWeightedSum ==
    pc = "done" =>
        \A i \in DOMAIN conceptMastery :
            LET m == conceptMastery[i]
            IN  /\ m.easy_score = ExpectedTierScore(m.concept, "easy")
                /\ m.moderate_score = ExpectedTierScore(m.concept, "moderate")
                /\ m.hard_score = ExpectedTierScore(m.concept, "hard")
                /\ m.overall_score = ExpectedOverall(m.concept)
                /\ PerfectAtOnly(m.concept, "easy") => m.overall_score = Num(30)
                /\ PerfectAtOnly(m.concept, "moderate") => m.overall_score = Num(40)
                /\ PerfectAtOnly(m.concept, "hard") => m.overall_score = Num(30)

\* C4 witness: the result holds a topic answered perfectly at the moderate tier
\* only (scored 40) beside a topic tested at two tiers.
C4_Witness ==
    /\ pc = "done"
    /\ \E i, j \in DOMAIN conceptMastery :
          /\ PerfectAtOnly(conceptMastery[i].concept, "moderate")
          /\ conceptMastery[i].overall_score = Num(40)
          /\ ConceptTotal(conceptMastery[j].concept, "easy") > 0
          /\ ConceptTotal(conceptMastery[j].concept, "hard") > 0

\* C5: every topic of the result has status mastered exactly when
\* overall_score >= 80, partially-understood exactly when 50 <= overall_score
\* < 80 and needs-revision exactly when overall_score < 50; 80 and 50 belong to
\* the higher band.
C5_StatusBands ==
    pc = "done" =>
        \A i \in DOMAIN conceptMastery :
            LET m == conceptMastery[i]
                n == m.overall_score.num
                d == m.overall_score.den
            IN  /\ d > 0
                /\ m.status \in {"mastered", "partially-understood", "needs-revision"}
                /\ m.status = "mastered" <=> n >= 80 * d
                /\ m.status = "partially-understood" <=> (50 * d <= n /\ n < 80 * d)
                /\ m.status = "needs-revision" <=> n < 50 * d

\* C5 witness: a topic scored exactly 80 and reported as mastered.
C5_Witness ==
    /\ pc = "done"
    /\ \E i \in DOMAIN conceptMastery :
          /\ conceptMastery[i].overall_score = Num(80)
          /\ conceptMastery[i].status = "mastered"

\* The position of the first answered question on a concept.
FirstEncounter(concept) ==
    CHOOSE i \in DOMAIN questions :
        /\ questions[i].topic = concept
        /\ \A j \in 1..(i - 1) : questions[j].topic # concept

\* C11: the list computeConceptMastery returns is in non-increasing order of
\* overall_score, and topics of equal overall_score keep the order in which
\* their first question was met.
C11_SortedStable ==
    pc = "done" =>
        \A i, j \in DOMAIN conceptMastery :
            i < j =>
                LET a == conceptMastery[i]
                    b == conceptMastery[j]
                IN  /\ Ge(a.overall_score, b.overall_score)
                    /\ a.overall_score = b.overall_score
                           => FirstEncounter(a.concept) < FirstEncounter(b.concept)

\* C11 witness: a result of two topics of equal positive score, the topic met
\* first being the later one in alphabetical order.
C11_Witness ==
    /\ pc = "done"
    /\ Len(conceptMastery) = 2
    /\ conceptMastery[1].overall_score = conceptMastery[2].overall_score
    /\ Gt(conceptMastery[1].overall_score, Num(0))
    /\ conceptMastery[1].concept = "graphs"
    /\ FirstEncounter("graphs") < FirstEncounter("arrays")

(***************************************************************************)
(* Numbers with a square root: a + c * sqrt(v), for fractions a, c and     *)
(* v >= 0.  Math.sqrt of a fraction is seldom a fraction; the comparisons  *)
(* and the rounding below are exact.                                       *)
(***************************************************************************)
\* Math.sqrt(v)
MathSqrt(v) == [a |-> Num(0), c |-> Num(1), v |-> v]

SurdOf(x) == [a |-> x, c |-> Num(0), v |-> Num(0)]

\* s * x and s + x and x - s, for a fraction x
SurdMul(s, x) == [a |-> Mul(s.a, x), c |-> Mul(s.c, x), v |-> s.v]

SurdAdd(s, x) == [s EXCEPT !.a = Add(@, x)]

SurdSubFrom(x, s) == [a |-> Sub(x, s.a), c |-> Neg(s.c), v |-> s.v]

\* s + t for two values over the same root (or one of them a fraction)
SurdSum(s, t) ==
    [a |-> Add(s.a, t.a), c |-> Add(s.c, t.c),
     v |-> IF s.c = Num(0) THEN t.v ELSE s.v]

\* a + c * sqrt(v) >= 0
SurdGeZero(s) ==
    LET rootPart == Mul(Mul(s.c, s.c), s.v)      \* (c * sqrt(v))^2
        fracPart == Mul(s.a, s.a)                \* a^2
    IN  IF rootPart = Num(0) THEN Ge(s.a, Num(0))
        ELSE IF Ge(s.a, Num(0)) /\ Gt(s.c, Num(0)) THEN TRUE
        ELSE IF Lt(s.a, Num(0)) /\ Lt(s.c, Num(0)) THEN FALSE
        ELSE IF Ge(s.a, Num(0)) THEN Ge(fracPart, rootPart)
        ELSE Ge(rootPart, fracPart)

\* Math.max(0, s)
SurdMax0(s) == IF SurdGeZero(s) THEN s ELSE SurdOf(Num(0))

\* The greatest integer z <= s, looked for around the floor of the fraction
\* part, no further away than |c| * max(1, v) >= |c| * sqrt(v).
SurdFloor(s) ==
    LET base == s.a.num \div s.a.den
        reach == Mul(MathAbs(s.c), MathMax(Num(1), s.v))
        k == (reach.num \div reach.den) + 1
    IN  CHOOSE z \in (base - k)..(base + k) :
            /\ SurdGeZero(SurdAdd(s, Num(-z)))
            /\ ~SurdGeZero(SurdAdd(s, Num(-(z + 1))))

\* Math.round(s): halves are rounded up
SurdRound(s) == Num(SurdFloor(SurdAdd(s, Rat(1, 2))))

(***************************************************************************)
(* computeOverallConfidenceScore                                           *)
(***************************************************************************)
\* The responses handed to computeOverallConfidenceScore, which reads
\* is_correct and total_time (below and above the 120 s baseline).
ConfidenceResponses ==
    [is_correct : BOOLEAN, user_confidence : {80}, total_time : {Num(30), Num(150)}]

\* array.reduce((sum, x) => sum + term(x), 0), given the terms of the first n
\* elements
RECURSIVE reduceSum(_, _)
reduceSum(terms, n) ==
    IF n = 0 THEN Num(0) ELSE Add(reduceSum(terms, n - 1), terms[n])

\* responses.filter((r) => r.is_correct).length
countCorrect(rs) == Len(SelectSeq(rs, LAMBDA r : r.is_correct))

\* weightedConfidence with the weights of accuracy and consistency exchanged.
weightedConfidence_AccuracyLight(accuracy, consistency, speedScore) ==
    SurdSum(SurdSum(SurdOf(Mul(accuracy, Rat(25, 100))), SurdMul(consistency, Rat(6, 10))),
            SurdOf(Mul(speedScore, Rat(15, 100))))

\* weightedConfidence with the weights of consistency and speed exchanged.
weightedConfidence_WeightsExchanged(accuracy, consistency, speedScore) ==
    SurdSum(SurdSum(SurdOf(Mul(accuracy, Rat(6, 10))), SurdMul(consistency, Rat(15, 100))),
            SurdOf(Mul(speedScore, Rat(25, 100))))

\* accuracy * 0.6 + consistency * 0.25 + speedScore * 0.15
weightedConfidence(accuracy, consistency, speedScore) ==
    SurdSum(SurdSum(SurdOf(Mul(accuracy, Rat(6, 10))), SurdMul(consistency, Rat(25, 100))),
            SurdOf(Mul(speedScore, Rat(15, 100))))

\* (totalCorrect / responses.length) * 100
accuracyOf(rs) ==
    LET totalCorrect == countCorrect(rs)
    IN  Mul(Div(Num(totalCorrect), Num(Len(rs))), Num(100))

\* Math.max(0, 100 - Math.sqrt(variance) * 100)
consistencyOf(rs) ==
    LET correctnessValues == [i \in DOMAIN rs |-> IF rs[i].is_correct THEN 1 ELSE 0]
        avgCorrectness ==
            Div(reduceSum([i \in DOMAIN correctnessValues |-> Num(correctnessValues[i])],
                          Len(correctnessValues)),
                Num(Len(correctnessValues)))
        variance ==
            Div(reduceSum([i \in DOMAIN correctnessValues |->
                              Mul(Sub(Num(correctnessValues[i]), avgCorrectness),
                                  Sub(Num(correctnessValues[i]), avgCorrectness))],
                          Len(correctnessValues)),
                Num(Len(correctnessValues)))
    IN  SurdMax0(SurdSubFrom(Num(100), SurdMul(MathSqrt(variance), Num(100))))

\* The speed without Math.max(0, ...): negative for a mean time above 120 s.
speedScoreOf_NotClamped(rs) ==
    LET avgTime ==
            Div(reduceSum([i \in DOMAIN rs |-> rs[i].total_time], Len(rs)),
                Num(Len(rs)))
    IN  Sub(Num(100), Mul(Div(avgTime, Num(120)), Num(100)))

\* Math.max(0, 100 - (avgTime / 120) * 100)
speedScoreOf(rs) ==
    LET avgTime ==
            Div(reduceSum([i \in DOMAIN rs |-> rs[i].total_time], Len(rs)),
                Num(Len(rs)))
    IN  MathMax(Num(0), Sub(Num(100), Mul(Div(avgTime, Num(120)), Num(100))))

computeOverallConfidenceScore(rs, scores) ==
    IF Len(rs) = 0 THEN Num(0)
    ELSE
    LET accuracy == accuracyOf(rs)
        consistency == consistencyOf(rs)
        speedScore == speedScoreOf(rs)
        confidenceScore == weightedConfidence(accuracy, consistency, speedScore)
    IN  SurdRound(confidenceScore)

(***************************************************************************)
(* The specification of computeOverallConfidenceScore.  The function reads *)
(* the list through counts and sums, so the response lists are enumerated  *)
(* once per multiset: correct before incorrect, quick before slow.         *)
(***************************************************************************)
responseRank(r) ==
    (IF r.is_correct THEN 0 ELSE 2) + (IF r.total_time = Num(30) THEN 0 ELSE 1)

InitConfidence ==
    /\ pc = "input"
    /\ OutsideScoringUnused
    /\ responses = <<>>
    /\ questions = <<>>
    /\ NoResults

AddConfidenceResponse ==
    /\ pc = "input"
    /\ Len(responses) < MaxResponses
    /\ \E r \in ConfidenceResponses :
          /\ Len(responses) > 0 =>
                responseRank(responses[Len(responses)]) <= responseRank(r)
          /\ responses' = Append(responses, r)
    /\ UNCHANGED <<pc, questions, difficultyScores, conceptMastery,
                   overallConfidenceScore, understandingLevel, interpretation,
                   recommendations>>
    /\ UNCHANGED outsideScoring

CallComputeOverallConfidenceScore ==
    /\ pc = "input"
    /\ overallConfidenceScore' = computeOverallConfidenceScore(responses, initialScores)
    /\ pc' = "done"
    /\ UNCHANGED <<responses, questions, difficultyScores, conceptMastery,
                   understandingLevel, interpretation, recommendations>>
    /\ UNCHANGED outsideScoring

NextConfidence ==
    \/ AddConfidenceResponse
    \/ CallComputeOverallConfidenceScore

SpecConfidence == InitConfidence /\ [][NextConfidence]_vars

(***************************************************************************)
(* Claims about computeOverallConfidenceScore (under SpecConfidence).      *)
(***************************************************************************)
\* 8n * (accuracy*0.6 + 25 + speed*0.15 + 1/2 - z) for n responses, k of them
\* correct, of total time t: the score is at least z exactly when this is at
\* least 8n * 25 * stddev = 200 * sqrt(k * (n - k)).
ScoreMargin(n, k, t, z) ==
    480 * k + 204 * n + (IF 120 * n - t > 0 THEN 120 * n - t ELSE 0) - 8 * n * z

RoundsTo(n, k, t, z) ==
    LET root == 40000 * k * (n - k)
        atLeast(y) == ScoreMargin(n, k, t, y) >= 0
                         /\ ScoreMargin(n, k, t, y) * ScoreMargin(n, k, t, y) >= root
    IN  atLeast(z) /\ ~atLeast(z + 1)

\* C6: for a non-empty response list computeOverallConfidenceScore returns
\* round(accuracy*0.6 + consistency*0.25 + speed*0.15), accuracy = fraction
\* correct * 100, consistency = 100 - 100 * population standard deviation of the
\* 0/1 correctness values (never below 0, the deviation being at most 1/2),
\* speed = max(0, 100 - mean total_time/120*100); 10 correct responses of 30 s
\* each score 96.
C6_ConfidenceScore ==
    (pc = "done" /\ Len(responses) > 0) =>
        LET n == Len(responses)
            k == Cardinality({i \in DOMAIN responses : responses[i].is_correct})
            t == SumOver(DOMAIN responses, WholeSeconds(responses), "total_time")
        IN  /\ overallConfidenceScore.den = 1
            /\ RoundsTo(n, k, t, overallConfidenceScore.num)
            /\ (n = 10 /\ k = 10 /\ t = 300) => overallConfidenceScore = Num(96)

\* C6 witness: 10 correct responses of 30 s each have been scored.
C6_Witness ==
    /\ pc = "done"
    /\ Len(responses) = 10
    /\ \A i \in DOMAIN responses :
          responses[i].is_correct /\ responses[i].total_time = Num(30)
    /\ overallConfidenceScore = Num(96)

\* The response list with the response at position i correct.
MarkedCorrect(rs, i) == [rs EXCEPT ![i].is_correct = TRUE]

\* Marking the incorrect response at position i correct does not lower the score.
NotLoweredAt(i) ==
    Ge(computeOverallConfidenceScore(MarkedCorrect(responses, i), initialScores),
       overallConfidenceScore)

\* C26 as stated: for every non-empty response list, the same list with one
\* incorrect response made correct (times unchanged) has a score greater than or
\* equal to the score of the list; an all-incorrect session never outscores the
\* session with one correct answer.
C26_MonotoneInCorrectness ==
    (pc = "done" /\ Len(responses) > 0) =>
        \A i \in DOMAIN responses : ~responses[i].is_correct => NotLoweredAt(i)

\* C26 (amended): making one incorrect response correct does not lower the
\* score when the list has at most 6 responses, or when the correct responses
\* with the new one are more than half of the list; from 7 responses on, an
\* all-incorrect list can outscore the list with one correct answer.
C26_MonotoneForShortOrMostlyCorrect ==
    (pc = "done" /\ Len(responses) > 0) =>
        \A i \in DOMAIN responses :
            (/\ ~responses[i].is_correct
             /\ \/ Len(responses) <= 6
                \/ 2 * countCorrect(responses) + 1 >= Len(responses))
            => NotLoweredAt(i)

\* C26 witness: 6 incorrect responses of 30 s each score 36, and 37 with one of
\* them correct.
C26_Witness ==
    /\ pc = "done"
    /\ Len(responses) = 6
    /\ \A i \in DOMAIN responses :
          ~responses[i].is_correct /\ responses[i].total_time = Num(30)
    /\ overallConfidenceScore = Num(36)
    /\ computeOverallConfidenceScore(MarkedCorrect(responses, 1), initialScores) = Num(37)

(***************************************************************************)
(* The specification of computeOverallConfidenceScore for times of either  *)
(* sign.  total_time is a number and the function does not test its sign:  *)
(* the lists hold times below 0, below the 120 s baseline and above it.    *)
(***************************************************************************)
\* The length of the lists whose components are examined.
MaxClamped == 3

ClampResponses ==
    [is_correct : BOOLEAN, user_confidence : {80},
     total_time : {Num(-60), Num(30), Num(150), Num(600)}]

InitClamp ==
    /\ pc = "input"
    /\ OutsideScoringUnused
    /\ responses = <<>>
    /\ questions = <<>>
    /\ NoResults

AddClampResponse ==
    /\ pc = "input"
    /\ Len(responses) < MaxClamped
    /\ \E r \in ClampResponses : responses' = Append(responses, r)
    /\ UNCHANGED <<pc, questions, difficultyScores, conceptMastery,
                   overallConfidenceScore, understandingLevel, interpretation,
                   recommendations>>
    /\ UNCHANGED outsideScoring

NextClamp ==
    \/ AddClampResponse
    \/ CallComputeOverallConfidenceScore

SpecClamp == InitClamp /\ [][NextClamp]_vars

(***************************************************************************)
(* Claims about the range of the components (under SpecClamp).             *)
(***************************************************************************)
InRange(x) == Ge(x, Num(0)) /\ Ge(Num(100), x)

SurdInRange(s) == SurdGeZero(s) /\ SurdGeZero(SurdSubFrom(Num(100), s))

\* accuracy, consistency, speed and the returned score all lie in 0..100.
ComponentsInRange ==
    /\ InRange(overallConfidenceScore)
    /\ Len(responses) > 0 =>
          /\ InRange(accuracyOf(responses))
          /\ SurdInRange(consistencyOf(responses))
          /\ InRange(speedScoreOf(responses))

NonNegativeTimes == \A i \in DOMAIN responses : Ge(responses[i].total_time, Num(0))

\* The sum of the times of the list, in seconds.
TotalSeconds == SumOver(DOMAIN responses, WholeSeconds(responses), "total_time")

determineUnderstandingLevel_IgnoresHard(scores) ==
    LET easyAccuracy == scores.easy.accuracy
        moderateAccuracy == scores.moderate.accuracy
    IN  IF Ge(easyAccuracy, Num(80)) /\ Ge(moderateAccuracy, Num(70))
        THEN "job-ready"
        ELSE IF Ge(easyAccuracy, Num(70)) /\ Ge(moderateAccuracy, Num(60))
        THEN "improving"
        ELSE "beginner"

determineUnderstandingLevel(scores) ==
    LET easyAccuracy == scores.easy.accuracy
        moderateAccuracy == scores.moderate.accuracy
        hardAccuracy == scores.hard.accuracy
    IN  IF Ge(easyAccuracy, Num(80)) /\ Ge(moderateAccuracy, Num(70))
           /\ Ge(hardAccuracy, Num(60))
        THEN "job-ready"
        ELSE IF Ge(easyAccuracy, Num(70)) /\ Ge(moderateAccuracy, Num(60))
        THEN "improving"
        ELSE "beginner"

\* The six messages of generateInterpretation.
IndustryReady ==
    "Industry-ready understanding with strong foundation and application skills."

BasicsClear ==
    "Basics clear, but concepts need more work. Focus on practical application."

ConceptuallyStrong ==
    "Conceptually strong, but lacks deep application experience. Practice complex scenarios."

SolidFoundation ==
    "Solid foundational understanding with room for refinement in advanced topics."

FoundationNeedsStrengthening ==
    "Foundation needs strengthening. Review core concepts before advancing."

Developing ==
    "Developing understanding across difficulty levels. Consistent practice will build mastery."

\* generateInterpretation with the rule "low overall" tried before the rule
\* "balanced but moderate".
generateInterpretation_LowBeforeBalanced(scores) ==
    LET easyAccuracy == scores.easy.accuracy
        moderateAccuracy == scores.moderate.accuracy
        hardAccuracy == scores.hard.accuracy
    IN  IF Ge(easyAccuracy, Num(80)) /\ Ge(moderateAccuracy, Num(80))
           /\ Ge(hardAccuracy, Num(70))
        THEN IndustryReady
        ELSE IF Lt(easyAccuracy, Num(50)) \/ Lt(moderateAccuracy, Num(50))
        THEN FoundationNeedsStrengthening
        ELSE IF Ge(easyAccuracy, Num(75)) /\ Lt(moderateAccuracy, Num(60))
        THEN BasicsClear
        ELSE IF Ge(moderateAccuracy, Num(75)) /\ Lt(hardAccuracy, Num(50))
        THEN ConceptuallyStrong
        ELSE IF Ge(easyAccuracy, Num(60)) /\ Ge(moderateAccuracy, Num(60))
                /\ Ge(hardAccuracy, Num(50))
        THEN SolidFoundation
        ELSE Developing

\* generateInterpretation with the first rule asking hard >= 50 only.
generateInterpretation_IndustryAtHard50(scores) ==
    LET easyAccuracy == scores.easy.accuracy
        moderateAccuracy == scores.moderate.accuracy
        hardAccuracy == scores.hard.accuracy
    IN  IF Ge(easyAccuracy, Num(80)) /\ Ge(moderateAccuracy, Num(80))
           /\ Ge(hardAccuracy, Num(50))
        THEN IndustryReady
        ELSE IF Ge(easyAccuracy, Num(75)) /\ Lt(moderateAccuracy, Num(60))
        THEN BasicsClear
        ELSE IF Ge(moderateAccuracy, Num(75)) /\ Lt(hardAccuracy, Num(50))
        THEN ConceptuallyStrong
        ELSE IF Ge(easyAccuracy, Num(60)) /\ Ge(moderateAccuracy, Num(60))
                /\ Ge(hardAccuracy, Num(50))
        THEN SolidFoundation
        ELSE IF Lt(easyAccuracy, Num(50)) \/ Lt(moderateAccuracy, Num(50))
        THEN FoundationNeedsStrengthening
        ELSE Developing

generateInterpretation(scores) ==
    LET easyAccuracy == scores.easy.accuracy
        moderateAccuracy == scores.moderate.accuracy
        hardAccuracy == scores.hard.accuracy
    IN  IF Ge(easyAccuracy, Num(80)) /\ Ge(moderateAccuracy, Num(80))
           /\ Ge(hardAccuracy, Num(70))
        THEN IndustryReady
        ELSE IF Ge(easyAccuracy, Num(75)) /\ Lt(moderateAccuracy, Num(60))
        THEN BasicsClear
        ELSE IF Ge(moderateAccuracy, Num(75)) /\ Lt(hardAccuracy, Num(50))
        THEN ConceptuallyStrong
        ELSE IF Ge(easyAccuracy, Num(60)) /\ Ge(moderateAccuracy, Num(60))
                /\ Ge(hardAccuracy, Num(50))
        THEN SolidFoundation
        ELSE IF Lt(easyAccuracy, Num(50)) \/ Lt(moderateAccuracy, Num(50))
        THEN FoundationNeedsStrengthening
        ELSE Developing

\* A recommendation: its fixed text and, for the template of the concept
\* message, the concepts joined into it.
Message(text) == [text |-> text, concepts |-> <<>>]

PracticeHard ==
    Message("Practice complex problem-solving and multi-step reasoning to strengthen Hard-level performance.")

ReinforceModerate ==
    Message("Reinforce conceptual learning by working through more application-based scenarios.")

ReviewEasy ==
    Message("Review fundamental definitions and terminology to solidify your foundation.")

FocusRevision(topWeak) ==
    [text |-> "Focus revision efforts on: ${topWeak}. These concepts require more attention.",
     concepts |-> topWeak]

Overconfident ==
    Message("Work on self-assessment calibration. Your confidence often exceeds your accuracy.")

Underconfident ==
    Message("Build confidence in your knowledge. You're performing better than you think!")

Excellent ==
    Message("Excellent performance! Continue practicing advanced topics to maintain mastery.")

\* sliceFrom0 that keeps the whole list.
sliceFrom0_KeepsAll(list, end) == list

\* Array.prototype.slice(0, end)
sliceFrom0(list, end) ==
    SubSeq(list, 1, IF Len(list) < end THEN Len(list) ELSE end)

\* recommendations.push(message) when the condition holds
pushIf(list, condition, message) == IF condition THEN Append(list, message) ELSE list

\* generateRecommendations with the concept and calibration messages pushed
\* before the tier messages.
generateRecommendations_TiersLast(scores, mastery) ==
    LET easyAccuracy == scores.easy.accuracy
        moderateAccuracy == scores.moderate.accuracy
        hardAccuracy == scores.hard.accuracy
        weakConcepts == SelectSeq(mastery, LAMBDA c : c.status = "needs-revision")
        topWeak == [i \in DOMAIN sliceFrom0(weakConcepts, 2) |-> weakConcepts[i].concept]
        r1 == pushIf(<<>>, Len(weakConcepts) > 0, FocusRevision(topWeak))
        avgConfidence ==
            Div(Add(Add(scores.easy.avg_confidence, scores.moderate.avg_confidence),
                    scores.hard.avg_confidence), Num(3))
        avgAccuracy == Div(Add(Add(easyAccuracy, moderateAccuracy), hardAccuracy), Num(3))
        r2 == IF Gt(avgConfidence, Add(avgAccuracy, Num(20))) THEN Append(r1, Overconfident)
              ELSE IF Gt(avgAccuracy, Add(avgConfidence, Num(20)))
              THEN Append(r1, Underconfident)
              ELSE r1
        r3 == pushIf(r2, Lt(hardAccuracy, Num(60)), PracticeHard)
        r4 == pushIf(r3, Lt(moderateAccuracy, Num(60)), ReinforceModerate)
        r5 == pushIf(r4, Lt(easyAccuracy, Num(70)), ReviewEasy)
        r6 == pushIf(r5, Len(r5) = 0, Excellent)
    IN  sliceFrom0(r6, 3)

generateRecommendations(scores, mastery) ==
    LET easyAccuracy == scores.easy.accuracy
        moderateAccuracy == scores.moderate.accuracy
        hardAccuracy == scores.hard.accuracy
        r1 == pushIf(<<>>, Lt(hardAccuracy, Num(60)), PracticeHard)
        r2 == pushIf(r1, Lt(moderateAccuracy, Num(60)), ReinforceModerate)
        r3 == pushIf(r2, Lt(easyAccuracy, Num(70)), ReviewEasy)
        weakConcepts == SelectSeq(mastery, LAMBDA c : c.status = "needs-revision")
        topWeak == [i \in DOMAIN sliceFrom0(weakConcepts, 2) |-> weakConcepts[i].concept]
        r4 == pushIf(r3, Len(weakConcepts) > 0, FocusRevision(topWeak))
        avgConfidence ==
            Div(Add(Add(scores.easy.avg_confidence, scores.moderate.avg_confidence),
                    scores.hard.avg_confidence), Num(3))
        avgAccuracy == Div(Add(Add(easyAccuracy, moderateAccuracy), hardAccuracy), Num(3))
        r5 == IF Gt(avgConfidence, Add(avgAccuracy, Num(20))) THEN Append(r4, Overconfident)
              ELSE IF Gt(avgAccuracy, Add(avgConfidence, Num(20)))
              THEN Append(r4, Underconfident)
              ELSE r4
        r6 == pushIf(r5, Len(r5) = 0, Excellent)
    IN  sliceFrom0(r6, 3)

(***************************************************************************)
(* The specification of the three functions: tier scores and a concept     *)
(* mastery list are drawn from bounded sets, then the functions are called *)
(* in the order computeDifficultyAwareAnalytics calls them.                *)
(***************************************************************************)
\* Tier accuracies: the thresholds of the three functions, the integer below
\* each, and the two ends of the scale.
AccuracyValues == {0, 49, 50, 59, 60, 69, 70, 74, 75, 79, 80, 100}

\* Mean confidence of a session, the same at the three tiers.
ConfidenceValues == {0, 50, 100}

\* The DifficultyScore of a tier of 100 questions.
tierScoreOf(tier, accuracy, confidence) ==
    [difficulty |-> tier, total_questions |-> 100, correct |-> accuracy,
     accuracy |-> Num(accuracy), avg_confidence |-> Num(confidence),
     avg_time |-> Num(30)]

ProfileScores ==
    {[easy |-> tierScoreOf("easy", e, c),
      moderate |-> tierScoreOf("moderate", m, c),
      hard |-> tierScoreOf("hard", h, c)] :
        e \in AccuracyValues, m \in AccuracyValues, h \in AccuracyValues,
        c \in ConfidenceValues}

\* One question per tier on a concept: all answered correctly (overall 100),
\* the hard one missed (70), or all missed (0).
ConceptKinds == {"strong", "fair", "weak"}

conceptDataOf(kind) ==
    [easy |-> [correct |-> IF kind = "weak" THEN 0 ELSE 1, total |-> 1],
     moderate |-> [correct |-> IF kind = "weak" THEN 0 ELSE 1, total |-> 1],
     hard |-> [correct |-> IF kind = "strong" THEN 1 ELSE 0, total |-> 1]]

ProfileMasteryLists ==
    UNION {{[i \in 1..n |-> masteryEntry(ConceptOrder[i], conceptDataOf(kinds[i]))] :
               kinds \in [1..n -> ConceptKinds]} : n \in 0..MaxConcepts}

InitProfile ==
    /\ pc = "input"
    /\ OutsideScoringUnused
    /\ responses = <<>>
    /\ questions = <<>>
    /\ difficultyScores \in ProfileScores
    /\ conceptMastery \in ProfileMasteryLists
    /\ overallConfidenceScore = None
    /\ understandingLevel = None
    /\ interpretation = None
    /\ recommendations = None

CallDetermineUnderstandingLevel ==
    /\ pc = "input"
    /\ understandingLevel' = determineUnderstandingLevel(difficultyScores)
    /\ pc' = "level"
    /\ UNCHANGED <<responses, questions, difficultyScores, conceptMastery,
                   overallConfidenceScore, interpretation, recommendations>>
    /\ UNCHANGED outsideScoring

CallGenerateInterpretation ==
    /\ pc = "level"
    /\ interpretation' = generateInterpretation(difficultyScores)
    /\ pc' = "interpretation"
    /\ UNCHANGED <<responses, questions, difficultyScores, conceptMastery,
                   overallConfidenceScore, understandingLevel, recommendations>>
    /\ UNCHANGED outsideScoring

CallGenerateRecommendations ==
    /\ pc = "interpretation"
    /\ recommendations' = generateRecommendations(difficultyScores, conceptMastery)
    /\ pc' = "done"
    /\ UNCHANGED <<responses, questions, difficultyScores, conceptMastery,
                   overallConfidenceScore, understandingLevel, interpretation>>
    /\ UNCHANGED outsideScoring

NextProfile ==
    \/ CallDetermineUnderstandingLevel
    \/ CallGenerateInterpretation
    \/ CallGenerateRecommendations

SpecProfile == InitProfile /\ [][NextProfile]_vars

(***************************************************************************)
(* Claims about the three functions (under SpecProfile).                   *)
(***************************************************************************)
\* accuracy of a tier >= bound, on the fraction itself
AtLeast(tier, bound) ==
    difficultyScores[tier].accuracy.num >= bound * difficultyScores[tier].accuracy.den

Below(tier, bound) == ~AtLeast(tier, bound)

\* C7: determineUnderstandingLevel returns job-ready exactly when easy >= 80,
\* moderate >= 70 and hard >= 60; otherwise improving exactly when easy >= 70
\* and moderate >= 60; otherwise beginner.  With hard accuracy 0 it is never
\* job-ready, and easy accuracy 50 yields beginner.
C7_UnderstandingLevel ==
    pc \in {"level", "interpretation", "done"} =>
        LET jobReady == AtLeast("easy", 80) /\ AtLeast("moderate", 70) /\ AtLeast("hard", 60)
            improving == AtLeast("easy", 70) /\ AtLeast("moderate", 60)
        IN  /\ understandingLevel = "job-ready" <=> jobReady
            /\ understandingLevel = "improving" <=> (~jobReady /\ improving)
            /\ understandingLevel = "beginner" <=> (~jobReady /\ ~improving)
            /\ difficultyScores["hard"].accuracy = Num(0) => understandingLevel # "job-ready"
            /\ difficultyScores["easy"].accuracy = Num(50) => understandingLevel = "beginner"

\* C7 witness: easy and moderate meet the job-ready bounds, hard accuracy is 0
\* and the level returned is improving.
C7_Witness ==
    /\ pc = "level"
    /\ AtLeast("easy", 80) /\ AtLeast("moderate", 70)
    /\ difficultyScores["hard"].accuracy = Num(0)
    /\ understandingLevel = "improving"

\* The five conditions of generateRecommendations, in the order of the pushes:
\* 1 hard < 60, 2 moderate < 60, 3 easy < 70, 4 a needs-revision topic,
\* 5 mean confidence and mean accuracy more than 20 apart.
SumOfTiers(field) ==
    LET e == difficultyScores["easy"][field]
        m == difficultyScores["moderate"][field]
        h == difficultyScores["hard"][field]
    IN  IF e.den = 1 /\ m.den = 1 /\ h.den = 1 THEN e.num + m.num + h.num ELSE -1

Fired(k) ==
    CASE k = 1 -> Below("hard", 60)
      [] k = 2 -> Below("moderate", 60)
      [] k = 3 -> Below("easy", 70)
      [] k = 4 -> \E i \in DOMAIN conceptMastery : conceptMastery[i].status = "needs-revision"
      [] k = 5 -> \/ SumOfTiers("avg_confidence") > SumOfTiers("accuracy") + 60
                  \/ SumOfTiers("accuracy") > SumOfTiers("avg_confidence") + 60

\* The place of a message in the order of the pushes; 6 for the default.
MessageRank(message) ==
    CASE message = PracticeHard -> 1
      [] message = ReinforceModerate -> 2
      [] message = ReviewEasy -> 3
      [] message.concepts # <<>> -> 4
      [] message \in {Overconfident, Underconfident} -> 5
      [] message = Excellent -> 6
      [] OTHER -> 0

\* C8: generateRecommendations returns a list of at least 1 and at most 3
\* entries.
C8_RecommendationCount ==
    pc = "done" => (1 <= Len(recommendations) /\ Len(recommendations) <= 3)

\* C8 witness: four conditions fired and three recommendations were returned.
C8_Witness ==
    /\ pc = "done"
    /\ Cardinality({k \in 1..5 : Fired(k)}) >= 4
    /\ Len(recommendations) = 3

\* C9: the list holds, in the order hard, moderate, easy, topics, calibration,
\* at most one message per condition that fired, cut to the first 3: a message
\* is present exactly when its condition fired and fewer than 3 earlier
\* conditions fired, the three tier messages crowd out the other two, and the
\* default message is present exactly when no condition fired, as sole entry.
C9_RecommendationOrder ==
    pc = "done" =>
        /\ \A i \in DOMAIN recommendations : MessageRank(recommendations[i]) \in 1..6
        /\ \A i, j \in DOMAIN recommendations :
              i < j => MessageRank(recommendations[i]) < MessageRank(recommendations[j])
        /\ \A k \in 1..5 :
              (\E i \in DOMAIN recommendations : MessageRank(recommendations[i]) = k)
                  <=> (Fired(k) /\ Cardinality({q \in 1..(k - 1) : Fired(q)}) < 3)
        /\ (Fired(1) /\ Fired(2) /\ Fired(3)) =>
              recommendations = <<PracticeHard, ReinforceModerate, ReviewEasy>>
        /\ (\E i \in DOMAIN recommendations : recommendations[i] = Excellent)
              <=> (\A k \in 1..5 : ~Fired(k))
        /\ (\A k \in 1..5 : ~Fired(k)) => recommendations = <<Excellent>>

\* C9 witness: the five conditions fired and the three tier messages were
\* returned.
C9_Witness ==
    /\ pc = "done"
    /\ \A k \in 1..5 : Fired(k)
    /\ recommendations = <<PracticeHard, ReinforceModerate, ReviewEasy>>

\* The conditions of the six rules of generateInterpretation, in their order.
RuleHolds(k) ==
    CASE k = 1 -> AtLeast("easy", 80) /\ AtLeast("moderate", 80) /\ AtLeast("hard", 70)
      [] k = 2 -> AtLeast("easy", 75) /\ Below("moderate", 60)
      [] k = 3 -> AtLeast("moderate", 75) /\ Below("hard", 50)
      [] k = 4 -> AtLeast("easy", 60) /\ AtLeast("moderate", 60) /\ AtLeast("hard", 50)
      [] k = 5 -> Below("easy", 50) \/ Below("moderate", 50)
      [] k = 6 -> TRUE

RuleMessages ==
    <<IndustryReady, BasicsClear, ConceptuallyStrong, SolidFoundation,
      FoundationNeedsStrengthening, Developing>>

\* C10: generateInterpretation returns exactly one of the six messages, that of
\* the first rule whose condition holds: the message of a rule is returned only
\* when the condition of every earlier rule is false.
C10_FirstMatchingRule ==
    pc \in {"interpretation", "done"} =>
        /\ Cardinality({k \in 1..6 : interpretation = RuleMessages[k]}) = 1
        /\ \A k \in 1..6 :
              interpretation = RuleMessages[k]
                  <=> (RuleHolds(k) /\ \A j \in 1..(k - 1) : ~RuleHolds(j))

\* C10 witness: the conditions of two rules hold (easy high with moderate low,
\* and easy or moderate low) and the message of the earlier one was returned.
C10_Witness ==
    /\ pc = "interpretation"
    /\ RuleHolds(2) /\ RuleHolds(5)
    /\ interpretation = BasicsClear

\* C27: the level and the interpretation computed from one triple of tier
\* accuracies do not contradict each other: with level job-ready the
\* interpretation is the industry-ready or the solid-foundation message, and the
\* industry-ready interpretation comes with level job-ready only.
C27_LevelAgreesWithInterpretation ==
    pc \in {"interpretation", "done"} =>
        /\ understandingLevel = "job-ready" =>
               interpretation \in {IndustryReady, SolidFoundation}
        /\ interpretation = IndustryReady => understandingLevel = "job-ready"

\* C27 witness: accuracies 80 / 70 / 60 are job-ready with the solid-foundation
\* message.
C27_Witness ==
    /\ pc = "interpretation"
    /\ difficultyScores["easy"].accuracy = Num(80)
    /\ difficultyScores["moderate"].accuracy = Num(70)
    /\ difficultyScores["hard"].accuracy = Num(60)
    /\ understandingLevel = "job-ready"
    /\ interpretation = SolidFoundation

(***************************************************************************)
(* computeDifficultyAwareAnalytics                                         *)
(***************************************************************************)
\* responses.length > 0 ? (totalCorrect / responses.length) * 100 : 0
overallAccuracyOf(rs) ==
    LET totalCorrect == countCorrect(rs)
    IN  IF Len(rs) > 0 THEN Mul(Div(Num(totalCorrect), Num(Len(rs))), Num(100))
        ELSE Num(0)

\* 100 - (Math.max(...) - Math.min(...)) over the accuracies of the three tiers
accuracyConsistencyOf(scores) ==
    Sub(Num(100),
        Sub(MathMax(MathMax(scores.easy.accuracy, scores.moderate.accuracy),
                    scores.hard.accuracy),
            MathMin(MathMin(scores.easy.accuracy, scores.moderate.accuracy),
                    scores.hard.accuracy)))

\* 100 - Math.min(100, (|easy - moderate| + |moderate - hard|) / 2) over avg_time
timeConsistencyOf(scores) ==
    Sub(Num(100),
        MathMin(Num(100),
                Div(Add(MathAbs(Sub(scores.easy.avg_time, scores.moderate.avg_time)),
                        MathAbs(Sub(scores.moderate.avg_time, scores.hard.avg_time))),
                    Num(2))))

\* The callback of the reduce of confidenceAlignment, applied to one response.
alignmentTerm(r) ==
    LET expectedConfidence == IF r.is_correct THEN 80 ELSE 40
        diff == MathAbs(Num(r.user_confidence - expectedConfidence))
    IN  Sub(Num(100), diff)

\* confidenceAlignment with the sum kept between calls: the reduce starts from
\* the alignment an earlier call returned instead of 0.
confidenceAlignmentOf_SumKept(rs) ==
    LET start == IF DOMAIN analytics = {} THEN Num(0)
                 ELSE analytics[CHOOSE s \in DOMAIN analytics : TRUE].confidence_alignment
    IN  Div(Add(start, reduceSum([i \in DOMAIN rs |-> alignmentTerm(rs[i])], Len(rs))),
            Num(Len(rs)))

\* responses.reduce((sum, r) => sum + (100 - diff), 0) / responses.length
confidenceAlignmentOf(rs) ==
    Div(reduceSum([i \in DOMAIN rs |-> alignmentTerm(rs[i])], Len(rs)), Num(Len(rs)))

computeDifficultyAwareAnalytics(rs, qs) ==
    LET scores == computeDifficultyScores(rs, qs)
        mastery == computeConceptMastery(rs, qs)
    IN  [easy |-> scores.easy,
         moderate |-> scores.moderate,
         hard |-> scores.hard,
         concept_mastery |-> mastery,
         overall_confidence_score |-> computeOverallConfidenceScore(rs, scores),
         overall_accuracy |-> MathRound(overallAccuracyOf(rs)),
         overall_understanding_level |-> determineUnderstandingLevel(scores),
         accuracy_consistency |-> MathRound(accuracyConsistencyOf(scores)),
         time_consistency |-> MathRound(timeConsistencyOf(scores)),
         confidence_alignment |-> MathRound(confidenceAlignmentOf(rs)),
         interpretation |-> generateInterpretation(scores),
         recommendations |-> generateRecommendations(scores, mastery)]

(***************************************************************************)
(* The specification of computeDifficultyAwareAnalytics: the learners of   *)
(* two sessions answer their questions and the results page of each        *)
(* session makes the scoring call, once or again, in any interleaving.     *)
(***************************************************************************)
\* The number of answers of a session.
MaxScored == 2

SessionIds == {"first", "second"}

AnalyticsResponses ==
    [is_correct : BOOLEAN, user_confidence : {90}, total_time : {Num(30)}]

AnalyticsQuestions ==
    {[difficulty |-> "easy", topic |-> "arrays"], [difficulty |-> "hard", topic |-> "graphs"]}

InitAnalytics ==
    /\ pc = None
    /\ responses = None /\ questions = None
    /\ NoResults
    /\ sessions = [s \in SessionIds |-> [responses |-> <<>>, questions |-> <<>>]]
    /\ analytics = <<>>
    /\ request = None /\ batch = None /\ attempts = None
    /\ draft = None /\ violations = None /\ generatorCalls = None
    /\ selectedDifficulty = None /\ sessionStorage = None
    /\ route = None /\ alertShown = None
    /\ OtherPagesUnused

\* A learner submits an answer; the responses of a session are complete when
\* its results page is shown.
AnswerAnalyticsQuestion(s) ==
    /\ s \notin DOMAIN analytics
    /\ Len(sessions[s].responses) < MaxScored
    /\ \E q \in AnalyticsQuestions, r \in AnalyticsResponses :
          sessions' = [sessions EXCEPT ![s] =
                          [responses |-> Append(@.responses, r),
                           questions |-> Append(@.questions, q)]]
    /\ UNCHANGED <<pc, scoringVars, analytics, generationVars, pageVars>>

\* The effect of the results page: the call is made when there are responses,
\* and its result is kept under the session.
CallComputeDifficultyAwareAnalytics(s) ==
    /\ Len(sessions[s].responses) > 0
    /\ analytics' =
          [t \in DOMAIN analytics \cup {s} |->
              IF t = s
              THEN computeDifficultyAwareAnalytics(sessions[s].responses,
                                                   sessions[s].questions)
              ELSE analytics[t]]
    /\ UNCHANGED <<pc, scoringVars, sessions, generationVars, pageVars>>

NextAnalytics ==
    \E s \in SessionIds :
        \/ AnswerAnalyticsQuestion(s)
        \/ CallComputeDifficultyAwareAnalytics(s)

SpecAnalytics == InitAnalytics /\ [][NextAnalytics]_vars

(***************************************************************************)
(* Claims about computeDifficultyAwareAnalytics (under SpecAnalytics).     *)
(***************************************************************************)
\* Sessions scored from equal lists hold equal Analytics records.
EqualInputsEqualAnalytics ==
    \A s, t \in DOMAIN analytics :
        sessions[s] = sessions[t] => analytics[s] = analytics[t]

\* A step that returns a result changes no list, and a call made again for a
\* session returns what it returned before.
CallKeepsInputsAndResults ==
    /\ analytics' # analytics => sessions' = sessions
    /\ \A s \in DOMAIN analytics : analytics'[s] = analytics[s]

MaxSession == 3

\* The topics a further question may have: one of the batch, or the next name.
sessionTopics(qs) ==
    LET used == Cardinality({qs[i].topic : i \in DOMAIN qs})
    IN  {ConceptOrder[i] : i \in 1..(IF used < Len(ConceptOrder) THEN used + 1 ELSE used)}

InitSession ==
    /\ pc = "input"
    /\ OutsideScoringUnused
    /\ responses = <<>>
    /\ questions = <<>>
    /\ NoResults

AddSessionQuestion ==
    /\ pc = "input"
    /\ Len(responses) = 0
    /\ Len(questions) < MaxSession
    /\ \E difficulty \in Tiers, topic \in sessionTopics(questions) :
          questions' = Append(questions, [difficulty |-> difficulty, topic |-> topic])
    /\ UNCHANGED <<pc, responses, difficultyScores, conceptMastery,
                   overallConfidenceScore, understandingLevel, interpretation,
                   recommendations>>
    /\ UNCHANGED outsideScoring

AnswerSessionQuestion ==
    /\ pc = "input"
    /\ Len(responses) < Len(questions)
    /\ \E r \in AnalyticsResponses : responses' = Append(responses, r)
    /\ UNCHANGED <<pc, questions, difficultyScores, conceptMastery,
                   overallConfidenceScore, understandingLevel, interpretation,
                   recommendations>>
    /\ UNCHANGED outsideScoring

CallComputeAnalyticsOfSession ==
    /\ pc = "input"
    /\ analytics' = computeDifficultyAwareAnalytics(responses, questions)
    /\ pc' = "done"
    /\ UNCHANGED scoringVars
    /\ UNCHANGED <<sessions, generationVars, pageVars>>

NextSession ==
    \/ AddSessionQuestion
    \/ AnswerSessionQuestion
    \/ CallComputeAnalyticsOfSession

SpecSession == InitSession /\ [][NextSession]_vars

(***************************************************************************)
(* Claims about the Analytics record of a session (under SpecSession).     *)
(***************************************************************************)
\* The entries of concept_mastery with status needs-revision.
NeedsRevision ==
    {i \in DOMAIN analytics.concept_mastery :
        analytics.concept_mastery[i].status = "needs-revision"}

\* The topics named by the 'Focus revision efforts on' message, if it is among
\* the recommendations.
FocusNamed ==
    UNION {{analytics.recommendations[k].concepts[j] :
                j \in DOMAIN analytics.recommendations[k].concepts} :
           k \in DOMAIN analytics.recommendations}

\* C23: when more than two topics have status needs-revision, the topics named
\* in the 'Focus revision efforts on' message are needs-revision topics with the
\* lowest overall_score: no needs-revision topic left out scores lower than a
\* topic named.
C23_FocusOnWeakest ==
    (pc = "done" /\ Cardinality(NeedsRevision) > 2) =>
        \A i, j \in NeedsRevision :
            (/\ analytics.concept_mastery[i].concept \in FocusNamed
             /\ analytics.concept_mastery[j].concept \notin FocusNamed)
            => Ge(analytics.concept_mastery[j].overall_score,
                  analytics.concept_mastery[i].overall_score)

\* Three topics answered once each: arrays (easy) and graphs (moderate)
\* correctly, trees (hard) not; the message names graphs and arrays.
C23_HighestNamed ==
    /\ pc = "done"
    /\ Cardinality(NeedsRevision) = 3
    /\ FocusNamed = {"graphs", "arrays"}
    /\ \E i \in NeedsRevision :
          /\ analytics.concept_mastery[i].concept = "trees"
          /\ analytics.concept_mastery[i].overall_score = Num(0)

\* The numeric fields of the record outside the tier scores and the mastery
\* list.
OverallNumbers ==
    {analytics.overall_confidence_score, analytics.overall_accuracy,
     analytics.accuracy_consistency, analytics.time_consistency,
     analytics.confidence_alignment}

\* C24: for an empty response list, with any question list, every numeric field
\* of the record computeDifficultyAwareAnalytics returns is a defined number,
\* none the result of a division by the response count 0.
C24_EmptySessionDefined ==
    (pc = "done" /\ Len(responses) = 0) => \A x \in OverallNumbers : IsFinite(x)

\* An empty response list with three questions has been scored:
\* confidence_alignment is NaN, the other four numbers are defined.
C24_EmptySessionScored ==
    /\ pc = "done"
    /\ Len(responses) = 0
    /\ Len(questions) = 3
    /\ IsNaN(analytics.confidence_alignment)
    /\ analytics.overall_accuracy = Num(0)
    /\ analytics.overall_confidence_score = Num(0)

RECURSIVE SumOfField(_, _, _)
SumOfField(list, field, n) ==
    IF n = 0 THEN 0 ELSE SumOfField(list, field, n - 1) + list[n][field]

\* C25: for aligned lists of equal length n the tier totals sum to n, each tier
\* has 0 <= correct <= total_questions, the tier correct counts sum to the
\* number of correct responses, concept_mastery has exactly one entry per
\* distinct question topic, and the question_count values sum to n.
C25_CountsConserved ==
    (pc = "done" /\ Len(responses) = Len(questions)) =>
        LET n == Len(responses)
            tiers == <<analytics.easy, analytics.moderate, analytics.hard>>
            mastery == analytics.concept_mastery
        IN  /\ SumOfField(tiers, "total_questions", 3) = n
            /\ \A t \in 1..3 : 0 <= tiers[t].correct
                                  /\ tiers[t].correct <= tiers[t].total_questions
            /\ SumOfField(tiers, "correct", 3) =
                   Cardinality({i \in DOMAIN responses : responses[i].is_correct})
            /\ {mastery[i].concept : i \in DOMAIN mastery} =
                   {questions[i].topic : i \in DOMAIN questions}
            /\ Len(mastery) = Cardinality({questions[i].topic : i \in DOMAIN questions})
            /\ SumOfField(mastery, "question_count", Len(mastery)) = n

\* C25 witness: three answered questions on two topics and two tiers, two of
\* the answers correct.
C25_Witness ==
    /\ pc = "done"
    /\ Len(responses) = 3 /\ Len(questions) = 3
    /\ Cardinality({questions[i].topic : i \in DOMAIN questions}) = 2
    /\ Len(analytics.concept_mastery) = 2
    /\ analytics.easy.total_questions = 2
    /\ analytics.hard.total_questions = 1
    /\ analytics.easy.correct + analytics.hard.correct = 2

(***************************************************************************)
(* Question generation: the validator, the auto-fixer and the loop that    *)
(* fills a batch slot by slot from the drafts of the external generator.   *)
(***************************************************************************)
\* The size of a batch.
MaxBatch == 3

\* One retry more than allowed.
MaxRetries_Four == 3 + 1

\* Auto-regeneration (max 3 retries)
MaxRetries == 3

Segments == {"MCQ", "MCQ_REASONING", "ASSERTION_REASON"}

\* The alternation that starts with ASSERTION_REASON.
requiredSegment_OddFirst(difficulty, question_index) ==
    IF difficulty = "hard"
    THEN IF question_index % 2 = 0 THEN "ASSERTION_REASON" ELSE "MCQ_REASONING"
    ELSE "MCQ"

\* The segment of the question at a zero-based index of a batch.
requiredSegment(difficulty, question_index) ==
    IF difficulty = "hard"
    THEN IF question_index % 2 = 0 THEN "MCQ_REASONING" ELSE "ASSERTION_REASON"
    ELSE "MCQ"

\* Reasoning is required of MCQ_REASONING questions only.
requiredReasoning(segment) == segment = "MCQ_REASONING"

CanonicalLabels == <<"A", "B", "C", "D">>

\* The four options of an assertion-reason question, by meaning.
AssertionReasonOptions ==
    <<"both true, R explains A", "both true, R does not explain A",
      "A true, R false", "A false, R true">>

McqOptions == <<"first", "second", "third", "fourth">>

optionTexts(segment) ==
    IF segment = "ASSERTION_REASON" THEN AssertionReasonOptions ELSE McqOptions

labelled(labels, texts) ==
    [i \in DOMAIN texts |-> [label |-> labels[i], text |-> texts[i]]]

\* A draft as the generator means it for a segment.
cleanDraft(segment) ==
    [segment |-> segment,
     reasoning_required |-> requiredReasoning(segment),
     options |-> labelled(CanonicalLabels, optionTexts(segment)),
     correct_answer |-> "A",
     assertion_and_reason |-> segment = "ASSERTION_REASON"]

\* What can be wrong with a draft: the first four defects can be repaired, the
\* last four cannot.
Defects ==
    {"none", "flag", "no labels", "labels out of order", "answer as text",
     "three options", "unknown answer", "no assertion and reason", "free options"}

defective(segment, defect) ==
    LET q == cleanDraft(segment)
    IN  CASE defect = "none" -> q
          [] defect = "flag" -> [q EXCEPT !.reasoning_required = ~@]
          [] defect = "no labels" ->
                [q EXCEPT !.options = labelled(<<"", "", "", "">>, optionTexts(segment))]
          [] defect = "labels out of order" ->
                [q EXCEPT !.options = labelled(<<"B", "A", "D", "C">>, optionTexts(segment))]
          [] defect = "answer as text" -> [q EXCEPT !.correct_answer = optionTexts(segment)[3]]
          [] defect = "three options" -> [q EXCEPT !.options = SubSeq(@, 1, 3)]
          [] defect = "unknown answer" -> [q EXCEPT !.correct_answer = "E"]
          [] defect = "no assertion and reason" -> [q EXCEPT !.assertion_and_reason = FALSE]
          [] defect = "free options" ->
                [q EXCEPT !.options = labelled(CanonicalLabels, McqOptions)]

\* The drafts the generator may return, whatever it was asked for.
Drafts == {defective(segment, defect) : segment \in Segments, defect \in Defects}

labelsOf(q) == [i \in DOMAIN q.options |-> q.options[i].label]

textsOf(q) == [i \in DOMAIN q.options |-> q.options[i].text]

\* validate_question without the rule on the segment.
validate_question_SegmentUnchecked(q, difficulty, question_index) ==
    LET segment == requiredSegment(difficulty, question_index)
    IN  {field \in {"options", "labels", "correct_answer", "reasoning_required", "question"} :
            CASE field = "options" ->
                    \/ Len(q.options) # 4
                    \/ segment = "ASSERTION_REASON" /\ textsOf(q) # AssertionReasonOptions
              [] field = "labels" -> labelsOf(q) # SubSeq(CanonicalLabels, 1, Len(q.options))
              [] field = "correct_answer" ->
                    ~\E i \in DOMAIN q.options :
                        q.correct_answer = CanonicalLabels[i] /\ q.options[i].label = CanonicalLabels[i]
              [] field = "reasoning_required" ->
                    q.reasoning_required # requiredReasoning(segment)
              [] field = "question" ->
                    segment = "ASSERTION_REASON" /\ ~q.assertion_and_reason}

\* validate_question without the rule on reasoning_required.
validate_question_FlagUnchecked(q, difficulty, question_index) ==
    LET segment == requiredSegment(difficulty, question_index)
    IN  {field \in {"segment", "options", "labels", "correct_answer", "question"} :
            CASE field = "segment" -> q.segment # segment
              [] field = "options" ->
                    \/ Len(q.options) # 4
                    \/ segment = "ASSERTION_REASON" /\ textsOf(q) # AssertionReasonOptions
              [] field = "labels" -> labelsOf(q) # SubSeq(CanonicalLabels, 1, Len(q.options))
              [] field = "correct_answer" ->
                    ~\E i \in DOMAIN q.options :
                        q.correct_answer = CanonicalLabels[i] /\ q.options[i].label = CanonicalLabels[i]
              [] field = "question" ->
                    segment = "ASSERTION_REASON" /\ ~q.assertion_and_reason}

\* The violations of a draft meant for a slot, as the set of the fields at
\* fault: the segment the slot requires; exactly 4 options (of the fixed
\* meanings for ASSERTION_REASON); the labels A, B, C, D in order; a correct
\* answer that is the label of a presented option; reasoning_required as the
\* segment requires; an assertion and a reason in an ASSERTION_REASON question.
validate_question(q, difficulty, question_index) ==
    LET segment == requiredSegment(difficulty, question_index)
    IN  {field \in {"segment", "options", "labels", "correct_answer",
                    "reasoning_required", "question"} :
            CASE field = "segment" -> q.segment # segment
              [] field = "options" ->
                    \/ Len(q.options) # 4
                    \/ segment = "ASSERTION_REASON" /\ textsOf(q) # AssertionReasonOptions
              [] field = "labels" -> labelsOf(q) # SubSeq(CanonicalLabels, 1, Len(q.options))
              [] field = "correct_answer" ->
                    ~\E i \in DOMAIN q.options :
                        q.correct_answer = CanonicalLabels[i] /\ q.options[i].label = CanonicalLabels[i]
              [] field = "reasoning_required" ->
                    q.reasoning_required # requiredReasoning(segment)
              [] field = "question" ->
                    segment = "ASSERTION_REASON" /\ ~q.assertion_and_reason}

\* The options in the order A, B, C, D of their labels when the labels are
\* these four in some order, and labelled by position when a label is missing.
relabel(options) ==
    IF Len(options) # 4 THEN options
    ELSE IF {options[i].label : i \in 1..4} = {"A", "B", "C", "D"}
    THEN [i \in 1..4 |-> CHOOSE o \in {options[j] : j \in 1..4} : o.label = CanonicalLabels[i]]
    ELSE [i \in 1..4 |-> [label |-> CanonicalLabels[i], text |-> options[i].text]]

\* A correct answer given as the text of an option, as the label of the option.
normalizeAnswer(answer, options) ==
    IF \E i \in DOMAIN options : options[i].text = answer
    THEN (CHOOSE o \in {options[i] : i \in DOMAIN options} : o.text = answer).label
    ELSE answer

\* The mechanical repairs: option labels, the form of the correct answer and
\* the reasoning_required flag.  Options, an assertion or a reason are never
\* invented and the segment is never changed.
auto_fix_question(q, difficulty, question_index) ==
    LET options == relabel(q.options)
    IN  [q EXCEPT
            !.options = options,
            !.correct_answer = normalizeAnswer(@, options),
            !.reasoning_required =
                requiredReasoning(requiredSegment(difficulty, question_index))]

\* Validation, then repair and validation again when there are violations:
\* the question as it stands in the end and the violations it still has.
validate_and_fix_question(q, difficulty, question_index) ==
    IF validate_question(q, difficulty, question_index) = {}
    THEN [question |-> q, violations |-> {}]
    ELSE LET fixed == auto_fix_question(q, difficulty, question_index)
         IN  [question |-> fixed,
              violations |-> validate_question(fixed, difficulty, question_index)]

\* A fallback that ignores the segment of the slot.
fallbackQuestion_AlwaysMcq(difficulty, segment) ==
    [cleanDraft("MCQ") EXCEPT !.correct_answer = "B"]
        @@ [question_id |-> "fallback", difficulty |-> difficulty]

\* The static question kept for a (tier, segment) pair.
fallbackQuestion(difficulty, segment) ==
    [cleanDraft(segment) EXCEPT !.correct_answer = "B"]
        @@ [question_id |-> "fallback", difficulty |-> difficulty]

\* A generated question as it is placed in the batch.
generatedQuestion(q, difficulty) ==
    q @@ [question_id |-> "generated", difficulty |-> difficulty]

(***************************************************************************)
(* The specification of a generation request.  For each slot of the batch  *)
(* a draft is requested, validated and repaired; a valid question is       *)
(* placed, an invalid one is discarded and a new draft requested, up to    *)
(* MaxRetries drafts, after which the fallback question of the slot is     *)
(* placed.  The generator may answer any request with any draft.           *)
(***************************************************************************)
outsideGeneration == <<scoringVars, analyticsVars, pageVars>>

InitGeneration ==
    /\ pc = "idle"
    /\ responses = None /\ questions = None
    /\ NoResults
    /\ sessions = None /\ analytics = None
    /\ request = None
    /\ batch = <<>>
    /\ attempts = 0
    /\ draft = None
    /\ violations = {}
    /\ generatorCalls = 0
    /\ selectedDifficulty = None /\ sessionStorage = None
    /\ route = None /\ alertShown = None
    /\ OtherPagesUnused

\* The zero-based index of the slot being filled.
slotIndex == Len(batch)

StartRequest ==
    /\ pc = "idle"
    /\ \E difficulty \in Tiers, count \in 1..MaxBatch :
          request' = [difficulty |-> difficulty, count |-> count]
    /\ pc' = "slot"
    /\ UNCHANGED <<batch, attempts, draft, violations, generatorCalls, outsideGeneration>>

\* One call of the external generator for the current slot.
RequestDraft ==
    /\ pc = "slot"
    /\ slotIndex < request.count
    /\ attempts < MaxRetries
    /\ \E q \in Drafts : draft' = q
    /\ attempts' = attempts + 1
    /\ generatorCalls' = generatorCalls + 1
    /\ pc' = "draft"
    /\ UNCHANGED <<request, batch, violations, outsideGeneration>>

ValidateAndFix ==
    /\ pc = "draft"
    /\ LET checked == validate_and_fix_question(draft, request.difficulty, slotIndex)
       IN  /\ draft' = checked.question
           /\ violations' = checked.violations
    /\ pc' = "checked"
    /\ UNCHANGED <<request, batch, attempts, generatorCalls, outsideGeneration>>

\* A valid question takes the slot, and the next slot starts afresh.
PlaceQuestion ==
    /\ pc = "checked"
    /\ violations = {}
    /\ batch' = Append(batch, generatedQuestion(draft, request.difficulty))
    /\ attempts' = 0
    /\ draft' = None
    /\ pc' = "slot"
    /\ UNCHANGED <<request, violations, generatorCalls, outsideGeneration>>

\* A question that is still invalid is discarded.
DiscardDraft ==
    /\ pc = "checked"
    /\ violations # {}
    /\ draft' = None
    /\ violations' = {}
    /\ pc' = "slot"
    /\ UNCHANGED <<request, batch, attempts, generatorCalls, outsideGeneration>>

\* The retries of the slot are used up: its fallback question takes the slot.
SubstituteFallback ==
    /\ pc = "slot"
    /\ slotIndex < request.count
    /\ attempts >= MaxRetries
    /\ batch' = Append(batch, fallbackQuestion(request.difficulty,
                                               requiredSegment(request.difficulty, slotIndex)))
    /\ attempts' = 0
    /\ UNCHANGED <<pc, request, draft, violations, generatorCalls, outsideGeneration>>

ReturnBatch ==
    /\ pc = "slot"
    /\ slotIndex >= request.count
    /\ pc' = "returned"
    /\ UNCHANGED <<generationVars, outsideGeneration>>

NextGeneration ==
    \/ StartRequest
    \/ RequestDraft
    \/ ValidateAndFix
    \/ PlaceQuestion
    \/ DiscardDraft
    \/ SubstituteFallback
    \/ ReturnBatch

SpecGeneration == InitGeneration /\ [][NextGeneration]_vars

(***************************************************************************)
(* Claims about question generation (under SpecGeneration).                *)
(***************************************************************************)
\* The segment the rules give the slot at a one-based position of the batch.
SegmentOfSlot(position) ==
    IF request.difficulty \in {"easy", "moderate"} THEN "MCQ"
    ELSE IF position \in {1, 3, 5} THEN "MCQ_REASONING"
    ELSE "ASSERTION_REASON"

\* C12: in a hard-tier request, whatever drafts the generator returns and
\* whatever was retried or replaced by a fallback, the batch has
\* MCQ_REASONING at every even zero-based index and ASSERTION_REASON at every
\* odd one.
C12_HardAlternation ==
    (pc # "idle" /\ request.difficulty = "hard") =>
        \A i \in DOMAIN batch :
            batch[i].segment = IF (i - 1) % 2 = 0 THEN "MCQ_REASONING" ELSE "ASSERTION_REASON"

\* C12 witness: a hard-tier batch of three has been returned, its second
\* question a fallback and the others generated, after more than three
\* generator calls.
C12_Witness ==
    /\ pc = "returned"
    /\ request.difficulty = "hard"
    /\ Len(batch) = 3
    /\ batch[1].question_id = "generated"
    /\ batch[2].question_id = "fallback"
    /\ batch[3].question_id = "generated"
    /\ generatorCalls > 3

\* C13: a request always ends with a batch of exactly the requested size: a
\* slot whose retries are used up is filled with the fallback question of the
\* slot's tier and segment, and no state of the request is an error or a dead
\* end.
C13_AlwaysFullBatch ==
    pc # "idle" =>
        /\ pc \in {"slot", "draft", "checked", "returned"}
        /\ Len(batch) <= request.count
        /\ pc = "returned" => Len(batch) = request.count
        /\ pc # "returned" => ENABLED NextGeneration
        /\ (pc = "slot" /\ attempts = 3 /\ Len(batch) < request.count)
              => ENABLED SubstituteFallback /\ ~ENABLED RequestDraft
        /\ \A i \in DOMAIN batch :
              batch[i].question_id = "fallback" =>
                  /\ batch[i].difficulty = request.difficulty
                  /\ batch[i].segment = SegmentOfSlot(i)
                  /\ batch[i].options = labelled(CanonicalLabels, optionTexts(SegmentOfSlot(i)))

\* C13 witness: the generator never returned a valid draft, and a batch of
\* three fallback questions has been returned.
C13_Witness ==
    /\ pc = "returned"
    /\ request.count = 3
    /\ Len(batch) = 3
    /\ \A i \in DOMAIN batch : batch[i].question_id = "fallback"
    /\ generatorCalls = 9

\* C14: at most 3 generator calls are made for a slot; after the third draft
\* that is still invalid no draft is requested and the fallback follows; a
\* request makes at most 3 * N generator calls.
C14_AtMostThreeCallsPerSlot ==
    pc # "idle" =>
        /\ attempts <= 3
        /\ generatorCalls <= 3 * Len(batch) + attempts
        /\ generatorCalls <= 3 * request.count
        /\ (pc = "slot" /\ attempts = 3) => ~ENABLED RequestDraft

\* C14 witness: the third draft of the second slot has been discarded, six
\* generator calls having been made.
C14_Witness ==
    /\ pc = "slot"
    /\ attempts = 3
    /\ Len(batch) = 1
    /\ request.count > 1
    /\ generatorCalls = 6

\* A hard-tier draft of the segment of the other parity.
WrongSegmentDraft ==
    /\ pc \in {"draft", "checked"}
    /\ request.difficulty = "hard"
    /\ draft.segment = IF slotIndex % 2 = 0 THEN "ASSERTION_REASON" ELSE "MCQ_REASONING"

\* C15: in a hard-tier request an ASSERTION_REASON draft for an even slot, or
\* an MCQ_REASONING draft for an odd slot, is left with a violation of the
\* segment by validation and repair; the step that follows discards it without
\* touching the batch, and a retry or the fallback comes next.
C15_WrongSegmentRejected ==
    /\ []((pc = "checked" /\ WrongSegmentDraft) => "segment" \in violations)
    /\ []((pc = "slot" /\ Len(batch) < request.count)
             => ENABLED RequestDraft \/ ENABLED SubstituteFallback)
    /\ [][(pc = "checked" /\ WrongSegmentDraft) => (batch' = batch /\ pc' = "slot")]_vars

\* C15 witness: an otherwise valid ASSERTION_REASON draft for the third slot
\* (zero-based index 2) of a hard-tier batch has been validated and keeps the
\* violation of the segment.
C15_Witness ==
    /\ pc = "checked"
    /\ request.difficulty = "hard"
    /\ slotIndex = 2
    /\ draft.segment = "ASSERTION_REASON"
    /\ draft.assertion_and_reason
    /\ violations = {"segment"}

\* C16: every question placed in a batch, generated, repaired or fallback: an
\* easy or moderate question has segment MCQ and reasoning_required false, an
\* MCQ_REASONING question has reasoning_required true, an ASSERTION_REASON
\* question has it false, and the question has exactly 4 options labelled A
\* to D and a correct answer among A..D.
C16_DeliveredFormat ==
    pc # "idle" =>
        \A i \in DOMAIN batch :
            LET q == batch[i]
            IN  /\ q.difficulty \in {"easy", "moderate"}
                      => (q.segment = "MCQ" /\ ~q.reasoning_required)
                /\ q.segment = "MCQ_REASONING" => q.reasoning_required
                /\ q.segment = "ASSERTION_REASON" => ~q.reasoning_required
                /\ Len(q.options) = 4
                /\ \A k \in 1..4 : q.options[k].label = <<"A", "B", "C", "D">>[k]
                /\ q.correct_answer \in {"A", "B", "C", "D"}

\* C16 witness: a returned hard-tier batch holds a question generated valid
\* (answer A), a question repaired from an answer given as text (answer C) and
\* a fallback question.
C16_Witness ==
    /\ pc = "returned"
    /\ request.difficulty = "hard"
    /\ Len(batch) = 3
    /\ batch[1].question_id = "generated" /\ batch[1].correct_answer = "A"
    /\ batch[2].question_id = "generated" /\ batch[2].correct_answer = "C"
    /\ batch[3].question_id = "fallback"

(***************************************************************************)
(* The difficulty selection page (app/select-difficulty/page.tsx).         *)
(***************************************************************************)
\* null: no difficulty selected, no such item in the session storage
Null == "null"

SelectDifficultyPath == "/select-difficulty"

\* What the upload pages keep under pdf_content: the analysis of a document,
\* with its topics or without.
PdfContents ==
    {[success |-> TRUE],
     [success |-> TRUE, topics |-> <<>>],
     [success |-> TRUE, topics |-> <<"">>],
     [success |-> TRUE, topics |-> <<"Graph Theory", "Heaps">>]}

\* sessionStorage.getItem(key)
getItem(storage, key) == IF key \in DOMAIN storage THEN storage[key] ELSE Null

\* sessionStorage.setItem(key, value)
setItem(storage, key, value) ==
    [k \in DOMAIN storage \cup {key} |-> IF k = key THEN value ELSE storage[k]]

\* content.topics?.[0] || "Document Analysis"
domainOf(content) ==
    IF "topics" \in DOMAIN content /\ Len(content.topics) > 0 /\ content.topics[1] # ""
    THEN content.topics[1]
    ELSE "Document Analysis"

\* encodeURIComponent on the domains of the model: a space becomes %20
encodeURIComponent(text) ==
    CASE text = "Graph Theory" -> "Graph%20Theory"
      [] text = "Document Analysis" -> "Document%20Analysis"
      [] text = "   " -> "%20%20%20"
      [] OTHER -> text

\* The session storage a tab may hold when the page opens: the items of an
\* earlier assessment, a document or none.
InitialStorages ==
    {[k \in keys |->
         CASE k = "pdf_content" -> content
           [] k = "assessment_difficulty" -> difficulty
           [] k = "assessment_domain" -> "machine-learning"
           [] k = "assessment_mode" -> "pdf"] :
     keys \in SUBSET {"pdf_content", "assessment_difficulty", "assessment_domain",
                      "assessment_mode"},
     content \in PdfContents,
     difficulty \in {"easy", "hard"}}

InitSelectDifficulty ==
    /\ pc = None
    /\ responses = None /\ questions = None
    /\ NoResults
    /\ sessions = None /\ analytics = None
    /\ request = None /\ batch = None /\ attempts = None
    /\ draft = None /\ violations = None /\ generatorCalls = None
    /\ selectedDifficulty = Null
    /\ sessionStorage \in InitialStorages
    /\ route = [pathname |-> SelectDifficultyPath]
    /\ alertShown = None
    /\ OtherPagesUnused

outsidePage == <<pc, scoringVars, analyticsVars, generationVars, otherPages>>

\* onClick of a difficulty card
SelectDifficulty ==
    /\ route.pathname = SelectDifficultyPath
    /\ \E id \in Tiers : selectedDifficulty' = id
    /\ UNCHANGED <<sessionStorage, route, alertShown, outsidePage>>

handleStartAssessment ==
    /\ route.pathname = SelectDifficultyPath
    /\ IF selectedDifficulty = Null
       THEN /\ alertShown' = "Please select a difficulty level"
            /\ UNCHANGED <<sessionStorage, route>>
       ELSE IF "pdf_content" \notin DOMAIN sessionStorage  \* !pdfContent
       THEN /\ sessionStorage' =
                  setItem(sessionStorage, "assessment_difficulty", selectedDifficulty)
            /\ route' = [pathname |-> "/start"]
            /\ UNCHANGED alertShown
       ELSE LET content == sessionStorage["pdf_content"]
                domain == domainOf(content)
            IN  /\ sessionStorage' =
                      setItem(setItem(setItem(sessionStorage,
                                              "assessment_domain", domain),
                                      "assessment_difficulty", selectedDifficulty),
                              "assessment_mode", "pdf")
                /\ route' = [pathname |-> "/assessment",
                             domain |-> encodeURIComponent(domain),
                             difficulty |-> selectedDifficulty]
                /\ UNCHANGED alertShown
    /\ UNCHANGED <<selectedDifficulty, outsidePage>>

NextSelectDifficulty ==
    \/ SelectDifficulty
    \/ handleStartAssessment

SpecSelectDifficulty == InitSelectDifficulty /\ [][NextSelectDifficulty]_vars

(***************************************************************************)
(* Claims about the difficulty selection page (under                       *)
(* SpecSelectDifficulty).                                                  *)
(***************************************************************************)
\* C20: pressing Start Assessment with a difficulty selected leads to
\* /assessment with the selected difficulty as a parameter, with pdf_content in
\* the session storage or without; with no difficulty selected the route and
\* the session storage stay as they are.
C20_StartProceedsToAssessment ==
    [][handleStartAssessment =>
          IF selectedDifficulty = Null
          THEN route' = route /\ sessionStorage' = sessionStorage
          ELSE /\ route'.pathname = "/assessment"
               /\ route'.difficulty = selectedDifficulty]_vars

\* Start Assessment has been pressed with a difficulty selected and without
\* pdf_content.
C20_PressedWithoutDocument ==
    /\ route.pathname = "/start"
    /\ selectedDifficulty = "hard"
    /\ getItem(sessionStorage, "assessment_difficulty") = "hard"

(***************************************************************************)
(* The pages of one browser tab: the start page, the upload page and the   *)
(* difficulty selection page, with the session storage they share.  The    *)
(* state of a page is that of its useState hooks; a page that is not shown *)
(* holds its initial state, the state it is mounted with.  An object is    *)
(* the record of its defined properties, so that JSON.stringify followed   *)
(* by JSON.parse returns the record it was given.                          *)
(***************************************************************************)
\* The files the file input can hold, by name.
Files == {"notes.pdf", "photo.png"}

\* File.prototype.type
typeOf(selectedFile) ==
    IF selectedFile = "notes.pdf" THEN "application/pdf" ELSE "image/png"

\* useState<PDFSummary | null>(null)
NullSummary == [null |-> TRUE]

\* The state UploadPage is mounted with.
UploadPageMounted ==
    [file |-> Null, isUploading |-> FALSE, summary |-> NullSummary, error |-> Null]

\* The state StartAssessmentPage is mounted with.
StartPageMounted ==
    [selectedDomain |-> "", customDomain |-> "", selectedDifficulty |-> "",
     isLoading |-> FALSE]

\* How an ingest request can end: fetch rejects, the response is an HTTP
\* error, response.json() rejects, or the body is parsed, with success or not.
IngestOutcomes ==
    {[kind |-> "rejected", message |-> "Failed to fetch"],
     [kind |-> "response", ok |-> FALSE],
     [kind |-> "response", ok |-> TRUE, json |-> FALSE,
      message |-> "Unexpected token < in JSON at position 0"],
     [kind |-> "response", ok |-> TRUE, json |-> TRUE,
      data |-> [success |-> FALSE, error |-> "No text could be extracted"]],
     [kind |-> "response", ok |-> TRUE, json |-> TRUE, data |-> [success |-> FALSE]],
     [kind |-> "response", ok |-> TRUE, json |-> TRUE,
      data |-> [success |-> TRUE, title |-> "Graphs",
                topics |-> <<"Graph Theory", "Heaps">>]],
     [kind |-> "response", ok |-> TRUE, json |-> TRUE, data |-> [success |-> TRUE]]}

\* summaryPayload: title and topics of the fields it copies from data
summaryPayloadOf(data) ==
    LET topics == IF "topics" \in DOMAIN data THEN data.topics ELSE <<>>
    IN  IF "title" \in DOMAIN data
        THEN [title |-> data.title, topics |-> topics]
        ELSE [topics |-> topics]

\* { ...data, summary: summaryPayload }
withSummary(data, summaryPayload) ==
    [k \in DOMAIN data \cup {"summary"} |->
        IF k = "summary" THEN summaryPayload ELSE data[k]]

\* sessionStorage.removeItem(key)
removeItem(storage, key) == [k \in DOMAIN storage \ {key} |-> storage[k]]

\* The message the catch block of handleUpload sets for an outcome that throws.
thrownMessage(outcome) ==
    IF outcome.kind = "rejected" THEN outcome.message
    ELSE IF ~outcome.ok THEN "Failed to process PDF"
    ELSE IF ~outcome.json THEN outcome.message
    ELSE IF "error" \in DOMAIN outcome.data THEN outcome.data.error
    ELSE "Failed to process PDF"

\* handleFileChange with the test of the type lost.
handleFileChange_AnyType(selectedFile) ==
    /\ route.pathname = "/upload"
    /\ uploadPage.summary = NullSummary
    /\ uploadPage' = IF selectedFile # Null
                     THEN [uploadPage EXCEPT !.file = selectedFile, !.error = Null]
                     ELSE [uploadPage EXCEPT !.file = Null,
                                             !.error = "Please select a valid PDF file"]
    /\ UNCHANGED <<pc, scoringVars, analyticsVars, generationVars, selectedDifficulty,
                   sessionStorage, route, alertShown, startPage, ingest>>

\* onChange of the file input, shown while there is no summary;
\* selectedFile = e.target.files?.[0], Null when the choice was cancelled.
handleFileChange(selectedFile) ==
    /\ route.pathname = "/upload"
    /\ uploadPage.summary = NullSummary
    /\ uploadPage' = IF selectedFile # Null /\ typeOf(selectedFile) = "application/pdf"
                     THEN [uploadPage EXCEPT !.file = selectedFile, !.error = Null]
                     ELSE [uploadPage EXCEPT !.file = Null,
                                             !.error = "Please select a valid PDF file"]
    /\ UNCHANGED <<pc, scoringVars, analyticsVars, generationVars, selectedDifficulty,
                   sessionStorage, route, alertShown, startPage, ingest>>

\* handleUpload with the Analyze button enabled during an upload, for two
\* requests at a time.
handleUpload_ButtonNotDisabled ==
    /\ route.pathname = "/upload"
    /\ uploadPage.summary = NullSummary
    /\ Len(ingest) < 2
    /\ IF uploadPage.file = Null
       THEN /\ uploadPage' = [uploadPage EXCEPT !.error = "Please select a PDF file first"]
            /\ UNCHANGED ingest
       ELSE /\ uploadPage' = [uploadPage EXCEPT !.isUploading = TRUE, !.error = Null]
            /\ ingest' = Append(ingest, [pdf |-> uploadPage.file])
    /\ UNCHANGED <<pc, scoringVars, analyticsVars, generationVars, selectedDifficulty,
                   sessionStorage, route, alertShown, startPage>>

\* handleUpload up to its await: the handler of the Analyze button, which is
\* rendered when a file is selected and disabled while isUploading; without a
\* file the handler returns at its first test.
handleUpload ==
    /\ route.pathname = "/upload"
    /\ uploadPage.summary = NullSummary
    /\ ~(uploadPage.file # Null /\ uploadPage.isUploading)
    /\ IF uploadPage.file = Null
       THEN /\ uploadPage' = [uploadPage EXCEPT !.error = "Please select a PDF file first"]
            /\ UNCHANGED ingest
       ELSE /\ uploadPage' = [uploadPage EXCEPT !.isUploading = TRUE, !.error = Null]
            /\ ingest' = Append(ingest, [pdf |-> uploadPage.file])
    /\ UNCHANGED <<pc, scoringVars, analyticsVars, generationVars, selectedDifficulty,
                   sessionStorage, route, alertShown, startPage>>

\* completeUpload with pdf_content stored before success is tested.
completeUpload_StoresFirst(outcome) ==
    /\ Len(ingest) > 0
    /\ ingest' = Tail(ingest)
    /\ IF outcome.kind = "response" /\ outcome.ok /\ outcome.json
       THEN /\ sessionStorage' =
                  setItem(sessionStorage, "pdf_content",
                          withSummary(outcome.data, summaryPayloadOf(outcome.data)))
            /\ uploadPage' =
                  IF outcome.data.success
                  THEN [uploadPage EXCEPT !.summary = summaryPayloadOf(outcome.data),
                                          !.isUploading = FALSE]
                  ELSE [uploadPage EXCEPT !.error = thrownMessage(outcome),
                                          !.isUploading = FALSE]
       ELSE /\ uploadPage' = [uploadPage EXCEPT !.error = thrownMessage(outcome),
                                                !.isUploading = FALSE]
            /\ UNCHANGED sessionStorage
    /\ UNCHANGED <<pc, scoringVars, analyticsVars, generationVars, selectedDifficulty,
                   route, alertShown, startPage>>

\* handleUpload from its await on: the try block after fetch settles, the catch
\* block and the finally block.
completeUpload(outcome) ==
    /\ Len(ingest) > 0
    /\ ingest' = Tail(ingest)
    /\ IF outcome.kind = "response" /\ outcome.ok /\ outcome.json /\ outcome.data.success
       THEN LET summaryPayload == summaryPayloadOf(outcome.data)
            IN  /\ uploadPage' = [uploadPage EXCEPT !.summary = summaryPayload,
                                                    !.isUploading = FALSE]
                /\ sessionStorage' =
                      setItem(sessionStorage, "pdf_content",
                              withSummary(outcome.data, summaryPayload))
       ELSE /\ uploadPage' = [uploadPage EXCEPT !.error = thrownMessage(outcome),
                                                !.isUploading = FALSE]
            /\ UNCHANGED sessionStorage
    /\ UNCHANGED <<pc, scoringVars, analyticsVars, generationVars, selectedDifficulty,
                   route, alertShown, startPage>>

\* Test My Confidence, shown with the summary
handleTestConfidence ==
    /\ route.pathname = "/upload"
    /\ uploadPage.summary # NullSummary
    /\ route' = [pathname |-> SelectDifficultyPath]
    /\ uploadPage' = UploadPageMounted
    /\ selectedDifficulty' = Null
    /\ alertShown' = None
    /\ UNCHANGED <<pc, scoringVars, analyticsVars, generationVars, sessionStorage,
                   startPage, ingest>>

\* onClick of Upload Different Document, shown with the summary
UploadDifferentDocument ==
    /\ route.pathname = "/upload"
    /\ uploadPage.summary # NullSummary
    /\ uploadPage' = [uploadPage EXCEPT !.summary = NullSummary, !.file = Null]
    /\ sessionStorage' = removeItem(sessionStorage, "pdf_content")
    /\ UNCHANGED <<pc, scoringVars, analyticsVars, generationVars, selectedDifficulty,
                   route, alertShown, startPage, ingest>>

\* Two of the CORE_DOMAINS values: a listed domain and the custom one.
CoreDomains == {"machine-learning", "others"}

\* What the custom domain input can hold: nothing, blanks, a name.
CustomDomains == {"", "   ", "Blockchain"}

\* String.prototype.trim on the custom domains
trim(text) == IF text = "   " THEN "" ELSE text

\* isReadyToStart with the custom domain not trimmed.
isReadyToStart_NotTrimmed ==
    /\ startPage.selectedDomain # ""
    /\ startPage.selectedDifficulty # ""
    /\ startPage.selectedDomain # "others" \/ startPage.customDomain # ""

\* selectedDomain && selectedDifficulty &&
\*   (selectedDomain !== "others" || (selectedDomain === "others" && customDomain.trim() !== ""))
isReadyToStart ==
    /\ startPage.selectedDomain # ""
    /\ startPage.selectedDifficulty # ""
    /\ \/ startPage.selectedDomain # "others"
       \/ startPage.selectedDomain = "others" /\ trim(startPage.customDomain) # ""

\* onClick of Upload PDF & Start
GoToUpload ==
    /\ route.pathname = "/start"
    /\ route' = [pathname |-> "/upload"]
    /\ startPage' = StartPageMounted
    /\ uploadPage' = UploadPageMounted
    /\ UNCHANGED <<pc, scoringVars, analyticsVars, generationVars, selectedDifficulty,
                   sessionStorage, alertShown, ingest>>

\* onValueChange of the domain select
SelectDomain(value) ==
    /\ route.pathname = "/start"
    /\ startPage' = IF value # "others"
                    THEN [startPage EXCEPT !.selectedDomain = value, !.customDomain = ""]
                    ELSE [startPage EXCEPT !.selectedDomain = value]
    /\ UNCHANGED <<pc, scoringVars, analyticsVars, generationVars, selectedDifficulty,
                   sessionStorage, route, alertShown, uploadPage, ingest>>

\* onChange of the custom domain input, shown when "others" is selected
TypeCustomDomain(value) ==
    /\ route.pathname = "/start"
    /\ startPage.selectedDomain = "others"
    /\ startPage' = [startPage EXCEPT !.customDomain = value]
    /\ UNCHANGED <<pc, scoringVars, analyticsVars, generationVars, selectedDifficulty,
                   sessionStorage, route, alertShown, uploadPage, ingest>>

\* onValueChange of the difficulty select, shown when a domain is selected
SelectLevel(value) ==
    /\ route.pathname = "/start"
    /\ startPage.selectedDomain # ""
    /\ startPage' = [startPage EXCEPT !.selectedDifficulty = value]
    /\ UNCHANGED <<pc, scoringVars, analyticsVars, generationVars, selectedDifficulty,
                   sessionStorage, route, alertShown, uploadPage, ingest>>

\* handleStartAssessment of StartAssessmentPage, the handler of its Start
\* Assessment button, which is disabled unless isReadyToStart and not isLoading.
StartPageHandleStartAssessment ==
    /\ route.pathname = "/start"
    /\ isReadyToStart /\ ~startPage.isLoading
    /\ LET domainToUse == IF startPage.selectedDomain = "others"
                          THEN startPage.customDomain
                          ELSE startPage.selectedDomain
       IN  IF domainToUse = "" \/ startPage.selectedDifficulty = ""
           THEN UNCHANGED <<startPage, sessionStorage, route>>
           ELSE /\ startPage' = [startPage EXCEPT !.isLoading = TRUE]
                /\ sessionStorage' =
                      setItem(setItem(sessionStorage, "assessment_domain", domainToUse),
                              "assessment_difficulty", startPage.selectedDifficulty)
                /\ route' = [pathname |-> "/assessment",
                             domain |-> encodeURIComponent(domainToUse),
                             difficulty |-> startPage.selectedDifficulty]
    /\ UNCHANGED <<pc, scoringVars, analyticsVars, generationVars, selectedDifficulty,
                   alertShown, uploadPage, ingest>>

\* Start New Assessment on the results page that follows the assessment
StartNewAssessment ==
    /\ route.pathname = "/assessment"
    /\ route' = [pathname |-> "/start"]
    /\ startPage' = StartPageMounted
    /\ UNCHANGED <<pc, scoringVars, analyticsVars, generationVars, selectedDifficulty,
                   sessionStorage, alertShown, uploadPage, ingest>>

\* A new tab opened on the start page.
InitApp ==
    /\ pc = None
    /\ responses = None /\ questions = None
    /\ NoResults
    /\ sessions = None /\ analytics = None
    /\ request = None /\ batch = None /\ attempts = None
    /\ draft = None /\ violations = None /\ generatorCalls = None
    /\ selectedDifficulty = Null
    /\ sessionStorage = <<>>
    /\ route = [pathname |-> "/start"]
    /\ alertShown = None
    /\ uploadPage = UploadPageMounted
    /\ startPage = StartPageMounted
    /\ ingest = <<>>

NextApp ==
    \/ GoToUpload
    \/ \E value \in CoreDomains : SelectDomain(value)
    \/ \E value \in CustomDomains : TypeCustomDomain(value)
    \/ \E value \in Tiers : SelectLevel(value)
    \/ StartPageHandleStartAssessment
    \/ \E selectedFile \in Files \cup {Null} : handleFileChange(selectedFile)
    \/ handleUpload
    \/ \E outcome \in IngestOutcomes : completeUpload(outcome)
    \/ handleTestConfidence
    \/ UploadDifferentDocument
    \/ SelectDifficulty
    \/ handleStartAssessment
    \/ StartNewAssessment

\* fetch settles: an ingest request in flight ends in one of the outcomes.
SpecApp ==
    /\ InitApp
    /\ [][NextApp]_vars
    /\ WF_vars(\E outcome \in IngestOutcomes : completeUpload(outcome))

(***************************************************************************)
(* Claims about the pages of a tab (under SpecApp).                        *)
(***************************************************************************)
\* The ingest response is HTTP-ok, parses and reports success.
IngestSucceeded(outcome) ==
    outcome.kind = "response" /\ outcome.ok /\ outcome.json /\ outcome.data.success

UploadCompletesAsStated(outcome) ==
    IF IngestSucceeded(outcome)
    THEN /\ uploadPage'.summary # NullSummary
         /\ "pdf_content" \in DOMAIN sessionStorage'
         /\ \A k \in DOMAIN outcome.data :
               sessionStorage'["pdf_content"][k] = outcome.data[k]
    ELSE /\ uploadPage'.error # Null
         /\ uploadPage'.summary = uploadPage.summary
         /\ sessionStorage' = sessionStorage

FileChosenAsStated(selectedFile) ==
    IF selectedFile # Null /\ typeOf(selectedFile) = "application/pdf"
    THEN uploadPage'.file = selectedFile /\ uploadPage'.error = Null
    ELSE uploadPage'.file = Null /\ uploadPage'.error # Null

\* C22: the selected file of the upload page is non-null only if its type is
\* application/pdf: choosing another file or none clears the file and sets an
\* error, choosing a PDF clears the error, and handleUpload without a file sends
\* no request and only sets an error.
C22_OnlyPdfSelected ==
    /\ [](uploadPage.file # Null => typeOf(uploadPage.file) = "application/pdf")
    /\ [][\A selectedFile \in Files \cup {Null} :
             handleFileChange(selectedFile) => FileChosenAsStated(selectedFile)]_vars
    /\ [][(handleUpload /\ uploadPage.file = Null) =>
             /\ ingest' = ingest
             /\ uploadPage'.error # Null
             /\ uploadPage' = [uploadPage EXCEPT !.error = uploadPage'.error]
             /\ sessionStorage' = sessionStorage]_vars

\* C22 witness: handleUpload has run without a file: its error is shown and no
\* request is in flight.
C22_Witness ==
    /\ route.pathname = "/upload"
    /\ uploadPage.file = Null
    /\ uploadPage.error = "Please select a PDF file first"
    /\ ingest = <<>>

\* C28: every upload started by handleUpload leaves isUploading false in the
\* end, whatever the outcome; isUploading is true exactly while a request is in
\* flight, and no second request is started while one is in flight.
C28_UploadEnds ==
    /\ [](uploadPage.isUploading <=> Len(ingest) > 0)
    /\ [](Len(ingest) <= 1)
    /\ (uploadPage.isUploading ~> ~uploadPage.isUploading)

\* C28 witness: a request is in flight and the file input has been cleared
\* meanwhile.
C28_Witness ==
    /\ uploadPage.isUploading
    /\ Len(ingest) = 1
    /\ uploadPage.file = Null

\* C29: in every state of the session storage reached by uploads, resets and
\* the Start Assessment actions of the two pages, assessment_mode = "pdf"
\* implies that pdf_content is present.
C29_PdfModeHasContent ==
    getItem(sessionStorage, "assessment_mode") = "pdf" =>
        "pdf_content" \in DOMAIN sessionStorage

\* After a PDF-based assessment the document has been reset on the upload
\* page: assessment_mode is still "pdf" and pdf_content is gone.
C29_ModeLeftBehind ==
    /\ route.pathname = "/upload"
    /\ getItem(sessionStorage, "assessment_mode") = "pdf"
    /\ "pdf_content" \notin DOMAIN sessionStorage
    /\ uploadPage.summary = NullSummary

NavigatesWithStoredValues ==
    LET domain == getItem(sessionStorage', "assessment_domain")
        difficulty == getItem(sessionStorage', "assessment_difficulty")
    IN  /\ domain \notin {Null, ""}
        /\ route'.domain = encodeURIComponent(domain)
        /\ route'.difficulty \in Tiers
        /\ route'.difficulty = difficulty
        /\ (route.pathname = "/start" /\ startPage.selectedDomain = "others") =>
               /\ trim(startPage.customDomain) # ""
               /\ domain = startPage.customDomain

\* C30: every navigation to /assessment, from the start page or from the
\* difficulty selection page, carries a non-empty domain and a difficulty among
\* easy, moderate, hard, and at that moment assessment_domain and
\* assessment_difficulty in the session storage equal the domain and the
\* difficulty of the URL; with "others" selected on the start page the custom
\* domain is non-empty after trimming.
C30_NavigationCarriesStoredValues ==
    [][(route'.pathname = "/assessment" /\ route.pathname # "/assessment")
          => NavigatesWithStoredValues]_vars

\* C30 witness: the start page has navigated to /assessment with the custom
\* domain Blockchain at the hard tier.
C30_Witness ==
    /\ route.pathname = "/assessment"
    /\ route.domain = "Blockchain"
    /\ route.difficulty = "hard"
    /\ startPage.selectedDomain = "others"
    /\ getItem(sessionStorage, "assessment_domain") = "Blockchain"
    /\ getItem(sessionStorage, "assessment_difficulty") = "hard"

=============================================================================
